---- MODULE Spec2Model ----
(***************************************************************************)
(* Model of sfepy/parallel/parallel.py: detection of the inter-task        *)
(* facets, construction of the per-task dof maps and of the PETSc          *)
(* numbering by the coordinating process, the blocking distribution of     *)
(* the per-task data to the worker processes, the resolver helpers         *)
(* (get_local_ordering, get_sizes, expand_dofs), apply_ebc_to_matrix and   *)
(* the assembly of the local systems into the PETSc matrix and vector.     *)
(*                                                                         *)
(* Arrays indexed by a mesh entity id (cells, facets, dofs, tasks) are     *)
(* functions over 0..n-1 as in numpy; python lists built by append are     *)
(* sequences; python dicts are functions whose DOMAIN is the key set.      *)
(***************************************************************************)
EXTENDS Integers, Sequences, FiniteSets, TLC

\* Largest comm.size (number of tasks / processes) explored.
MaxTasks == 3
\* Largest number of messages the transport buffers per worker before a
\* blocking send has to wait for the receiver.
MaxBuf == 1

-----------------------------------------------------------------------------
(* numpy / python helpers *)

\* A 0-based array from a tuple.
Arr(s) == [i \in 0..(Len(s) - 1) |-> s[i + 1]]

Range(s) == {s[i] : i \in DOMAIN s}

\* The elements of a set of numbers in increasing order.
SortedSeq(S) ==
    [i \in 1..Cardinality(S) |->
        CHOOSE x \in S : Cardinality({y \in S : y < x}) = i - 1]

\* nm.unique(rows): the sorted distinct entries of a list of rows.
unique(rows) == SortedSeq(UNION {Range(rows[i]) : i \in DOMAIN rows})

\* setdiff1d that loses the largest entry of the difference.
setdiff1d_DropsLast(a, b) ==
    LET d == SortedSeq(Range(a) \ Range(b))
    IN  SubSeq(d, 1, Len(d) - 1)

\* nm.setdiff1d(a, b): the sorted distinct entries of a that are not in b.
setdiff1d(a, b) == SortedSeq(Range(a) \ Range(b))

RECURSIVE concatenate(_)
concatenate(rows) ==
    IF rows = <<>> THEN <<>> ELSE Head(rows) \o concatenate(Tail(rows))

RECURSIVE sum(_)
sum(s) == IF s = <<>> THEN 0 ELSE Head(s) + sum(Tail(s))

Max2(a, b) == IF a >= b THEN a ELSE b

SeqMax(s) == CHOOSE x \in Range(s) : \A y \in Range(s) : y <= x

\* s[a:b] of a python list / numpy array held as a sequence (0-based a, b).
Slice(s, a, b) == SubSeq(s, a + 1, IF b > Len(s) THEN Len(s) ELSE b)

EmptyDict == [k \in {} |-> 0]

\* d.setdefault(k, v), as the dict after the call.
SetDefault(d, k, v) ==
    IF k \in DOMAIN d THEN d
    ELSE [x \in (DOMAIN d) \cup {k} |-> IF x = k THEN v ELSE d[x]]

\* The keys of a dict in the order of ordered_iteritems.
OrderedKeys(d) == SortedSeq(DOMAIN d)

-----------------------------------------------------------------------------
(* The meshes: cell connectivity of the field, facet-to-cell connectivity  *)
(* in compressed-row form (offsets, indices) and the nodes of each facet.  *)

\* 2 x 2 quadrilaterals, nodes 3*row + col.
GridMesh ==
    [n_el |-> 4, n_nod |-> 9,
     econn |-> Arr(<< <<0, 1, 4, 3>>, <<1, 2, 5, 4>>,
                      <<3, 4, 7, 6>>, <<4, 5, 8, 7>> >>),
     cfc_offsets |-> Arr(<<0, 1, 2, 3, 5, 6, 8, 10, 11, 13, 14, 15, 16>>),
     cfc_indices |-> Arr(<<0, 1, 0, 0, 1, 1, 0, 2, 1, 3, 2, 2, 3, 3, 2, 3>>),
     efaces |-> Arr(<< <<0, 1>>, <<1, 2>>, <<0, 3>>, <<1, 4>>, <<2, 5>>,
                       <<3, 4>>, <<4, 5>>, <<3, 6>>, <<4, 7>>, <<5, 8>>,
                       <<6, 7>>, <<7, 8>> >>)]

\* 4 quadrilaterals in a row, nodes 0..4 below and 5..9 above.
StripMesh ==
    [n_el |-> 4, n_nod |-> 10,
     econn |-> Arr(<< <<0, 1, 6, 5>>, <<1, 2, 7, 6>>,
                      <<2, 3, 8, 7>>, <<3, 4, 9, 8>> >>),
     cfc_offsets |-> Arr(<<0, 1, 2, 4, 5, 6, 8, 9, 10, 12, 13, 14, 15, 16>>),
     cfc_indices |-> Arr(<<0, 0, 0, 1, 0, 1, 1, 2, 1, 2, 2, 3, 2, 3, 3, 3>>),
     efaces |-> Arr(<< <<0, 1>>, <<0, 5>>, <<1, 6>>, <<5, 6>>, <<1, 2>>,
                       <<2, 7>>, <<6, 7>>, <<2, 3>>, <<3, 8>>, <<7, 8>>,
                       <<3, 4>>, <<4, 9>>, <<8, 9>> >>)]

\* Two bodies: triangles 0 and 1 share the edge (1, 2), triangle 2 is apart.
IslandMesh ==
    [n_el |-> 3, n_nod |-> 7,
     econn |-> Arr(<< <<0, 1, 2>>, <<1, 3, 2>>, <<4, 5, 6>> >>),
     cfc_offsets |-> Arr(<<0, 1, 3, 4, 5, 6, 7, 8, 9>>),
     cfc_indices |-> Arr(<<0, 0, 1, 0, 1, 1, 2, 2, 2>>),
     efaces |-> Arr(<< <<0, 1>>, <<1, 2>>, <<0, 2>>, <<1, 3>>, <<2, 3>>,
                       <<4, 5>>, <<5, 6>>, <<4, 6>> >>)]

\* Triangle 0 touches triangle 1 in node 2 only; triangles 1 and 2 share the
\* edge (3, 4).
BowtieMesh ==
    [n_el |-> 3, n_nod |-> 6,
     econn |-> Arr(<< <<0, 1, 2>>, <<2, 3, 4>>, <<3, 5, 4>> >>),
     cfc_offsets |-> Arr(<<0, 1, 2, 3, 4, 6, 7, 8, 9>>),
     cfc_indices |-> Arr(<<0, 0, 0, 1, 1, 2, 1, 2, 2>>),
     efaces |-> Arr(<< <<0, 1>>, <<1, 2>>, <<0, 2>>, <<2, 3>>, <<3, 4>>,
                       <<2, 4>>, <<3, 5>>, <<4, 5>> >>)]

Meshes == {GridMesh, StripMesh, IslandMesh, BowtieMesh}

Cells(m) == 0..(m.n_el - 1)
Dofs(m) == 0..(m.n_nod - 1)
cfc_num(m) == Cardinality(DOMAIN m.cfc_offsets) - 1
Facets(m) == 0..(cfc_num(m) - 1)

\* The cells bordering facet f, read from the compressed-row arrays.
FacetCells(m, f) ==
    [k \in 1..(m.cfc_offsets[f + 1] - m.cfc_offsets[f]) |->
        m.cfc_indices[m.cfc_offsets[f] + k - 1]]

\* cmesh.get_surface_facets(): the facets with one bordering cell.
get_surface_facets(m) ==
    {f \in Facets(m) : m.cfc_offsets[f + 1] - m.cfc_offsets[f] = 1}

\* field.get_dofs_in_region(cell region): the dofs of the region's cells.
get_dofs_in_cells(m, cells) ==
    SortedSeq(UNION {Range(m.econn[cells[i]]) : i \in DOMAIN cells})

\* get_dofs_in_facets that looks at the first facet of the region only.
get_dofs_in_facets_FirstOnly(m, facets) ==
    SortedSeq(UNION {Range(m.efaces[facets[i]]) : i \in DOMAIN facets \cap {1}})

\* field.get_dofs_in_region(facet region): the dofs of the region's facets.
get_dofs_in_facets(m, facets) ==
    SortedSeq(UNION {Range(m.efaces[facets[i]]) : i \in DOMAIN facets})

\* FESurface(...).get_connectivity(): one row of dofs per facet of the region.
get_connectivity(m, facets) == [i \in DOMAIN facets |-> m.efaces[facets[i]]]

\* The cell lists of the tasks for a cell-to-task array.
CellParts(m, size, ct) ==
    [t \in 0..(size - 1) |-> SortedSeq({c \in Cells(m) : ct[c] = t})]

-----------------------------------------------------------------------------
(* get_inter_facets *)

\* Facet tasks by cells in cfc.
ftasks(m, ct) == [k \in DOMAIN m.cfc_indices |-> ct[m.cfc_indices[k]]]

\* Mesh inner facets, in increasing facet id.
if_inner(m) == SortedSeq(Facets(m) \ get_surface_facets(m))

\* if_inter without the comparison of the two bordering cells' tasks.
if_inter_AllInner(m, ct) == if_inner(m)

\* Facets in two tasks = inter-task region facets.
if_inter(m, ct) ==
    SelectSeq(if_inner(m),
              LAMBDA f : ftasks(m, ct)[m.cfc_offsets[f]]
                         # ftasks(m, ct)[m.cfc_offsets[f] + 1])

inter_tasks(m, ct) ==
    [ii \in DOMAIN if_inter(m, ct) |->
        << ftasks(m, ct)[m.cfc_offsets[if_inter(m, ct)[ii]]],
           ftasks(m, ct)[m.cfc_offsets[if_inter(m, ct)[ii]] + 1] >>]

\* RecordFacet without the second append.
RecordFacet_OneKey(i0, i1, facet) == << <<i0, i1, facet>> >>

\* One pass of the loop body, as the appends it makes: <<key, key, facet>>
\* for inter_facets.setdefault(key, {}).setdefault(key, []).append(facet),
\* first under (i0, i1), then under (i1, i0).
RecordFacet(i0, i1, facet) == << <<i0, i1, facet>>, <<i1, i0, facet>> >>

\* The appends of the whole loop, in the order they are made.
InterFacetsLoop(pairs, facets) ==
    concatenate([ii \in DOMAIN pairs |->
                    RecordFacet(pairs[ii][1], pairs[ii][2], facets[ii])])

\* The dict of dicts of lists a sequence of appends leaves: a key exists once
\* something was appended under it, a list holds its facets in append order.
AppendedDict(log) ==
    [i0 \in {e[1] : e \in Range(log)} |->
        [i1 \in {e[2] : e \in {x \in Range(log) : x[1] = i0}} |->
            LET mine == SelectSeq(log, LAMBDA e : e[1] = i0 /\ e[2] = i1)
            IN  [j \in DOMAIN mine |-> mine[j][3]]]]

get_inter_facets(m, ct) ==
    AppendedDict(InterFacetsLoop(inter_tasks(m, ct), if_inter(m, ct)))

-----------------------------------------------------------------------------
(* create_task_dof_maps: helpers *)

\* dof_maps.setdefault(t, [None, [], 0, 0])
NewDofMap ==
    [inner |-> <<>>, inner_none |-> TRUE, blocks |-> <<>>,
     n_owned |-> 0, offset |-> 0]

\* SplitIndex without the lower limit of one facet.
SplitIndex_NoMax(n_facet) == n_facet \div 2

\* ii2 = max(int(n_facet / 2), 1)
SplitIndex(n_facet) == Max2(n_facet \div 2, 1)

\* The entries of a dof array that id_map still holds at 0.
\* Unclaimed that takes every dof for unclaimed.
Unclaimed_All(idm, d) == d

Unclaimed(idm, d) == SelectSeq(d, LAMBDA x : idm[x] = 0)

\* id_map[dofs] = 1
Mark(idm, d) == [x \in DOMAIN idm |-> IF x \in Range(d) THEN 1 ELSE idm[x]]

\* ClaimBlock that leaves the owned counter of task t as it was.
ClaimBlock_NoCount(st, t, cand) ==
    LET new == Unclaimed(st.id_map, cand)
        n_new == Len(new)
    IN  IF n_new = 0 THEN st
        ELSE [id_map |-> Mark(st.id_map, new),
              dof_maps |-> [st.dof_maps EXCEPT ![t].blocks = Append(@, new)],
              inter_count |-> st.inter_count + n_new,
              count |-> st.count + n_new]

\* The "if n_new:" block: the unclaimed dofs of cand become a new block of
\* task t.
ClaimBlock(st, t, cand) ==
    LET new == Unclaimed(st.id_map, cand)
        n_new == Len(new)
    IN  IF n_new = 0 THEN st
        ELSE [id_map |-> Mark(st.id_map, new),
              dof_maps |-> [st.dof_maps EXCEPT ![t].blocks = Append(@, new),
                                               ![t].n_owned = @ + n_new],
              inter_count |-> st.inter_count + n_new,
              count |-> st.count + n_new]

\* The body of the loop over the neighbours ic of ir, after the setdefault.
ClaimInterfaceDofs(st, m, ir, ic, facets) ==
    LET econn == get_connectivity(m, facets)
        n_facet == Len(econn)
        ii2 == SplitIndex(n_facet)
        dr == unique(Slice(econn, 0, ii2))
        s1 == ClaimBlock(st, ir, dr)
        dc == unique(Slice(econn, ii2, n_facet))
    IN  ClaimBlock(s1, ic, dc)

\* Number with the ids of a block starting one too high.
Number_OffByOne(idm, aux, start) ==
    [x \in DOMAIN idm |->
        IF x \in Range(aux)
        THEN start + (CHOOSE j \in DOMAIN aux : aux[j] = x)
        ELSE idm[x]]

\* id_map[aux] = nm.arange(start, start + len(aux))
Number(idm, aux, start) ==
    [x \in DOMAIN idm |->
        IF x \in Range(aux)
        THEN start + (CHOOSE j \in DOMAIN aux : aux[j] = x) - 1
        ELSE idm[x]]

\* The loop over dof_map[1]: returns the id_map and the running i0.
RECURSIVE NumberBlocks(_, _, _, _, _)
NumberBlocks(idm, blocks, k, offset, i0) ==
    IF k > Len(blocks) THEN [id_map |-> idm, i0 |-> i0]
    ELSE NumberBlocks(Number(idm, blocks[k], offset + i0), blocks, k + 1,
                      offset, i0 + Len(blocks[k]))

\* NumberTaskDofs with the blocks numbered before the inner dofs.
NumberTaskDofs_BlocksFirst(idm, dof_map, offset) ==
    LET b == NumberBlocks(idm, dof_map.blocks, 1, offset, 0)
    IN  [id_map |-> Number(b.id_map, dof_map.inner, offset + b.i0),
         i0 |-> b.i0 + Len(dof_map.inner)]

\* The body of the numbering loop for one dof_map.
NumberTaskDofs(idm, dof_map, offset) ==
    NumberBlocks(Number(idm, dof_map.inner, offset), dof_map.blocks, 1,
                 offset, Len(dof_map.inner))

-----------------------------------------------------------------------------
(* distribute_field_dofs: helpers *)

\* n_cell_parts > 0 compares a python list with an int: under the python 2
\* ordering of mixed types a list is greater than any int.
ListGreaterThanInt(lst, n) == TRUE

\* Number of columns of field.ap.econn.
n_ep(m) == Len(m.econn[0])

\* petsc_conn without the renumbering.
petsc_conn_Raw(m, idm, cells) ==
    [i \in DOMAIN cells |-> m.econn[cells[i]]]

\* id_map[field.ap.econn[cells]]
petsc_conn(m, idm, cells) ==
    [i \in DOMAIN cells |->
        [j \in 1..n_ep(m) |-> idm[m.econn[cells[i]][j]]]]

\* field.ap.econn[cells]
global_conn(m, cells) == [i \in DOMAIN cells |-> m.econn[cells[i]]]

\* The row-major buffer of a 2D array.
Flatten(rows) == concatenate(rows)

\* A buffer of n_row * n_col entries seen as an array of shape (n_row, n_col).
Reshape(buf, n_row, n_col) ==
    [i \in 1..n_row |-> [j \in 1..n_col |-> buf[(i - 1) * n_col + j]]]

ObjMsg(v) == [kind |-> "obj", data |-> <<v>>]
BufMsg(a) == [kind |-> "buf", data |-> a]

\* Message with the connectivity array sent before its column count.
Message_ArrayBeforeShape(m, parts, dmaps, idm, it, k) ==
    CASE k = 1 -> ObjMsg(Len(parts[it]))
      [] k = 2 -> BufMsg(parts[it])
      [] k = 3 -> ObjMsg(dmaps[it].offset)
      [] k = 4 -> ObjMsg(dmaps[it].offset + dmaps[it].n_owned)
      [] k = 5 -> ObjMsg(Len(petsc_conn(m, idm, parts[it])))
      [] k = 6 -> BufMsg(Flatten(petsc_conn(m, idm, parts[it])))
      [] k = 7 -> ObjMsg(n_ep(m))

\* Message with the end of the dof range sent before its start.
Message_RangeSwapped(m, parts, dmaps, idm, it, k) ==
    CASE k = 1 -> ObjMsg(Len(parts[it]))
      [] k = 2 -> BufMsg(parts[it])
      [] k = 3 -> ObjMsg(dmaps[it].offset + dmaps[it].n_owned)
      [] k = 4 -> ObjMsg(dmaps[it].offset)
      [] k = 5 -> ObjMsg(Len(petsc_conn(m, idm, parts[it])))
      [] k = 6 -> ObjMsg(n_ep(m))
      [] k = 7 -> BufMsg(Flatten(petsc_conn(m, idm, parts[it])))

\* The k-th message of the coordinator to worker it (lines 182-196).
Message(m, parts, dmaps, idm, it, k) ==
    CASE k = 1 -> ObjMsg(Len(parts[it]))
      [] k = 2 -> BufMsg(parts[it])
      [] k = 3 -> ObjMsg(dmaps[it].offset)
      [] k = 4 -> ObjMsg(dmaps[it].offset + dmaps[it].n_owned)
      [] k = 5 -> ObjMsg(Len(petsc_conn(m, idm, parts[it])))
      [] k = 6 -> ObjMsg(n_ep(m))
      [] k = 7 -> BufMsg(Flatten(petsc_conn(m, idm, parts[it])))

\* Number of messages per worker.
NMsg == Cardinality({"n_cell", "cells", "i0", "i1", "n_row", "n_col", "conn"})

\* The kind of message the worker's k-th receive takes (lines 214-227).
ExpectedKind(k) == IF k \in {2, 7} THEN "buf" ELSE "obj"

\* ExpectedLen with the connectivity buffer sized by the row count alone.
ExpectedLen_RowsOnly(w, k) ==
    CASE k = 2 -> w.n_cell
      [] k = 7 -> w.n_cell
      [] OTHER -> 1

\* The length of the buffer the worker's k-th receive provides.
ExpectedLen(w, k) ==
    CASE k = 2 -> w.n_cell
      [] k = 7 -> w.n_cell * w.n_cdof
      [] OTHER -> 1

\* A worker before its first receive; the names dof_maps and id_map are not
\* bound on a worker until line 229.
NewWorker ==
    [pc |-> 1, n_cell |-> 0, cells |-> <<>>, i0 |-> 0, i1 |-> 0,
     n_cdof |-> 0, conn |-> <<>>, dof_maps |-> "unbound",
     id_map |-> "unbound"]

\* Receive that leaves the worker's dof_maps and id_map as they were.
Receive_KeepsMaps(w, k, msg) ==
    IF msg.kind # ExpectedKind(k) \/ Len(msg.data) # ExpectedLen(w, k)
    THEN [w EXCEPT !.pc = 0]
    ELSE CASE k = 1 -> [w EXCEPT !.pc = k + 1, !.n_cell = msg.data[1]]
           [] k = 2 -> [w EXCEPT !.pc = k + 1, !.cells = msg.data]
           [] k = 3 -> [w EXCEPT !.pc = k + 1, !.i0 = msg.data[1]]
           [] k = 4 -> [w EXCEPT !.pc = k + 1, !.i1 = msg.data[1]]
           [] k = 5 -> [w EXCEPT !.pc = k + 1, !.n_cell = msg.data[1]]
           [] k = 6 -> [w EXCEPT !.pc = k + 1, !.n_cdof = msg.data[1]]
           [] k = 7 -> [w EXCEPT !.pc = k + 1,
                                 !.conn = Reshape(msg.data, w.n_cell, w.n_cdof)]

\* The worker's state after its k-th receive took msg; after the last one
\* line 229 sets dof_maps = id_map = None.
Receive(w, k, msg) ==
    IF msg.kind # ExpectedKind(k) \/ Len(msg.data) # ExpectedLen(w, k)
    THEN [w EXCEPT !.pc = 0]
    ELSE CASE k = 1 -> [w EXCEPT !.pc = k + 1, !.n_cell = msg.data[1]]
           [] k = 2 -> [w EXCEPT !.pc = k + 1, !.cells = msg.data]
           [] k = 3 -> [w EXCEPT !.pc = k + 1, !.i0 = msg.data[1]]
           [] k = 4 -> [w EXCEPT !.pc = k + 1, !.i1 = msg.data[1]]
           [] k = 5 -> [w EXCEPT !.pc = k + 1, !.n_cell = msg.data[1]]
           [] k = 6 -> [w EXCEPT !.pc = k + 1, !.n_cdof = msg.data[1]]
           [] k = 7 -> [w EXCEPT !.pc = k + 1,
                                 !.conn = Reshape(msg.data, w.n_cell, w.n_cdof),
                                 !.dof_maps = "None",
                                 !.id_map = "None"]

-----------------------------------------------------------------------------
(* State *)

VARIABLES
    mesh,         \* the mesh and field connectivity (field.domain, field.ap)
    size,         \* comm.size
    cell_tasks,   \* cell id -> task id
    cell_parts,   \* task id -> sorted list of the task's cells
    pc0,          \* position of the coordinating process (rank 0)
    err,          \* the exception that ended the coordinator, "" if none
    inter_facets, \* dict task -> dict task -> list of facets
    id_map,       \* array dof -> claim marker, later dof -> global id
    dof_maps,     \* dict task -> [inner, blocks, n_owned, offset]
    count,        \* count and inter_count of create_task_dof_maps
    regions,      \* field.domain.regions
    loop,         \* loop positions and locals of create_task_dof_maps
    snd,          \* [it, k]: the next message of the send loop
    chan,         \* worker -> messages sent to it and not yet received
    workers,      \* worker -> position and locals of its receive sequence
    ret0,         \* what the coordinator returns
    call,         \* the helper function being called and its arguments
    out,          \* what the called helper function returned or raised
    pmtx,         \* the distributed PETSc matrix
    prhs,         \* the distributed PETSc vector
    asm           \* task -> position and arguments of its assemble_to_petsc

vars == << mesh, size, cell_tasks, cell_parts, pc0, err, inter_facets, id_map,
           dof_maps, count, regions, loop, snd, chan, workers, ret0,
           call, out, pmtx, prhs, asm >>

\* The state of the resolver and assembler helpers, which the distribution
\* never touches.
helpers == << call, out, pmtx, prhs, asm >>

inputs == << mesh, size, cell_tasks, cell_parts >>
builder == << inter_facets, id_map, dof_maps, count, regions, loop >>
transport == << snd, chan, workers >>

Ranks == 1..(size - 1)

UserRegion == [kind |-> "user", id |-> 0]
CellRegion(ir) == [kind |-> "task", id |-> ir]

NoLoop == [ir_pos |-> 0, ic_pos |-> 0, dofs |-> <<>>, inter_dofs |-> <<>>,
           num_pos |-> 0, offset |-> 0]

NoReturn == [returned |-> FALSE, cells |-> <<>>, range |-> <<0, 0>>,
             conn |-> <<>>]

NoCall == [fn |-> "none"]
NoOut == [done |-> FALSE]
NoMat == [vals |-> << >>, stash |-> << >>]

\* No helper function has been called.
NoHelpers ==
    /\ call = NoCall
    /\ out = NoOut
    /\ pmtx = NoMat
    /\ prhs = NoMat
    /\ asm = << >>

Init ==
    /\ mesh \in Meshes
    /\ size \in 1..MaxTasks
    /\ cell_tasks \in [Cells(mesh) -> 0..(size - 1)]
    /\ cell_parts = CellParts(mesh, size, cell_tasks)
    /\ pc0 = "start"
    /\ err = ""
    /\ inter_facets = EmptyDict
    /\ id_map = [d \in Dofs(mesh) |-> 0]
    /\ dof_maps = EmptyDict
    /\ count = [count |-> 0, inter_count |-> 0]
    /\ regions = <<UserRegion>>
    /\ loop = NoLoop
    /\ snd = [it |-> 1, k |-> 1]
    /\ chan = [w \in Ranks |-> <<>>]
    /\ workers = [w \in Ranks |-> NewWorker]
    /\ ret0 = NoReturn
    /\ NoHelpers

Raise(e) == pc0' = "error" /\ err' = e

-----------------------------------------------------------------------------
(* The coordinating process: get_inter_facets and create_task_dof_maps *)

\* Line 170 and lines 68-74: the InterfaceMap, and the empty builder state.
GetInterFacets ==
    /\ pc0 = "start"
    /\ LET res == get_inter_facets(mesh, cell_tasks)
       IN  /\ inter_facets' = res
           /\ pc0' = IF DOMAIN res = {} THEN "checks" ELSE "task"
    /\ id_map' = [d \in Dofs(mesh) |-> 0]
    /\ dof_maps' = EmptyDict
    /\ count' = [count |-> 0, inter_count |-> 0]
    /\ loop' = [NoLoop EXCEPT !.ir_pos = 1]
    /\ UNCHANGED << helpers, inputs, err, regions, transport, ret0 >>

CurrentTask == OrderedKeys(inter_facets)[loop.ir_pos]
CurrentNeighbour == OrderedKeys(inter_facets[CurrentTask])[loop.ic_pos]

\* Lines 77-82: the head of the loop over the tasks of inter_facets.
TaskBegin ==
    /\ pc0 = "task"
    /\ regions' = Append(regions, CellRegion(CurrentTask))
    /\ dof_maps' = SetDefault(dof_maps, CurrentTask, NewDofMap)
    /\ loop' = [loop EXCEPT
                  !.dofs = get_dofs_in_cells(mesh, cell_parts[CurrentTask]),
                  !.inter_dofs = <<>>,
                  !.ic_pos = 1]
    /\ pc0' = "inter"
    /\ UNCHANGED << helpers, inputs, err, inter_facets, id_map, count, transport, ret0 >>

\* Lines 83-121: one pass of the loop over the neighbours of the task.
ClaimInterface ==
    /\ pc0 = "inter"
    /\ LET ir == CurrentTask
           ic == CurrentNeighbour
           facets == inter_facets[ir][ic]
           st == [id_map |-> id_map,
                  dof_maps |-> SetDefault(dof_maps, ic, NewDofMap),
                  inter_count |-> count.inter_count,
                  count |-> count.count]
           s2 == ClaimInterfaceDofs(st, mesh, ir, ic, facets)
       IN  /\ id_map' = s2.id_map
           /\ dof_maps' = s2.dof_maps
           /\ count' = [count |-> s2.count, inter_count |-> s2.inter_count]
           /\ loop' = [loop EXCEPT
                         !.inter_dofs =
                             Append(@, get_dofs_in_facets(mesh, facets)),
                         !.ic_pos = @ + 1]
           /\ pc0' = IF loop.ic_pos = Len(OrderedKeys(inter_facets[ir]))
                     THEN "task_end" ELSE "inter"
    /\ UNCHANGED << helpers, inputs, err, inter_facets, regions, transport, ret0 >>

\* TaskEnd with the helper region left in the list.
TaskEnd_NoPop ==
    /\ pc0 = "task_end"
    /\ regions' = regions
    /\ LET ir == CurrentTask
           inner_dofs == setdiff1d(loop.dofs, concatenate(loop.inter_dofs))
           n_inner == Len(inner_dofs)
           dm1 == [dof_maps EXCEPT ![ir].n_owned = @ + n_inner]
       IN  IF \E i \in DOMAIN inner_dofs : id_map[inner_dofs[i]] # 0
           THEN /\ Raise("ClaimConflict")
                /\ dof_maps' = dm1
                /\ UNCHANGED << id_map, count, loop >>
           ELSE /\ id_map' = Mark(id_map, inner_dofs)
                /\ count' = [count EXCEPT !.count = @ + n_inner]
                /\ dof_maps' = [dm1 EXCEPT ![ir].inner = inner_dofs,
                                           ![ir].inner_none = FALSE]
                /\ IF loop.ir_pos = Len(OrderedKeys(inter_facets))
                   THEN /\ pc0' = "number"
                        /\ loop' = [loop EXCEPT !.num_pos = 1, !.offset = 0]
                   ELSE /\ pc0' = "task"
                        /\ loop' = [loop EXCEPT !.ir_pos = @ + 1]
                /\ err' = err
    /\ UNCHANGED << helpers, inputs, inter_facets, transport, ret0 >>

\* Lines 123-132: the helper region is removed, the inner dofs are claimed.
TaskEnd ==
    /\ pc0 = "task_end"
    /\ regions' = SubSeq(regions, 1, Len(regions) - 1)
    /\ LET ir == CurrentTask
           inner_dofs == setdiff1d(loop.dofs, concatenate(loop.inter_dofs))
           n_inner == Len(inner_dofs)
           dm1 == [dof_maps EXCEPT ![ir].n_owned = @ + n_inner]
       IN  IF \E i \in DOMAIN inner_dofs : id_map[inner_dofs[i]] # 0
           THEN /\ Raise("ClaimConflict")
                /\ dof_maps' = dm1
                /\ UNCHANGED << id_map, count, loop >>
           ELSE /\ id_map' = Mark(id_map, inner_dofs)
                /\ count' = [count EXCEPT !.count = @ + n_inner]
                /\ dof_maps' = [dm1 EXCEPT ![ir].inner = inner_dofs,
                                           ![ir].inner_none = FALSE]
                /\ IF loop.ir_pos = Len(OrderedKeys(inter_facets))
                   THEN /\ pc0' = "number"
                        /\ loop' = [loop EXCEPT !.num_pos = 1, !.offset = 0]
                   ELSE /\ pc0' = "task"
                        /\ loop' = [loop EXCEPT !.ir_pos = @ + 1]
                /\ err' = err
    /\ UNCHANGED << helpers, inputs, inter_facets, transport, ret0 >>

\* Lines 135-150: one pass of the numbering loop over dof_maps.
NumberTask ==
    /\ pc0 = "number"
    /\ LET ir == OrderedKeys(dof_maps)[loop.num_pos]
           dof_map == dof_maps[ir]
           n_owned == dof_map.n_owned
           res == NumberTaskDofs(id_map, dof_map, loop.offset)
       IN  IF dof_map.inner_none
           THEN /\ Raise("TypeError")
                /\ UNCHANGED << id_map, dof_maps, loop >>
           ELSE /\ id_map' = res.id_map
                /\ IF res.i0 # n_owned
                   THEN /\ Raise("OwnedCount")
                        /\ UNCHANGED << dof_maps, loop >>
                   ELSE /\ dof_maps' =
                               [dof_maps EXCEPT ![ir].offset = loop.offset]
                        /\ loop' = [loop EXCEPT !.offset = @ + n_owned,
                                                !.num_pos = @ + 1]
                        /\ pc0' = IF loop.num_pos = Len(OrderedKeys(dof_maps))
                                  THEN "checks" ELSE "number"
                        /\ err' = err
    /\ UNCHANGED << helpers, inputs, inter_facets, count, regions, transport, ret0 >>

-----------------------------------------------------------------------------
(* The coordinating process: distribute_field_dofs *)

n_cell_parts == [ii \in DOMAIN cell_parts |-> Len(cell_parts[ii])]

\* Lines 174-177: the checks of the partition.
CheckCells ==
    /\ pc0 = "checks"
    /\ IF sum([i \in 1..size |-> n_cell_parts[i - 1]]) # mesh.n_el
       THEN Raise("CellCount")
       ELSE IF ~ListGreaterThanInt(n_cell_parts, 0)
            THEN Raise("EmptyTask")
            ELSE /\ pc0' = IF size > 1 THEN "send" ELSE "own"
                 /\ err' = err
    /\ UNCHANGED << helpers, inputs, builder, transport, ret0 >>

\* Send with the loop over the workers ending one worker early.
Send_StopsEarly ==
    /\ pc0 = "send"
    /\ snd.k \in {3, 4} => snd.it \in DOMAIN dof_maps
    /\ Len(chan[snd.it]) < MaxBuf
    /\ chan' = [chan EXCEPT ![snd.it] =
                   Append(@, Message(mesh, cell_parts, dof_maps, id_map,
                                     snd.it, snd.k))]
    /\ IF snd.k < NMsg
       THEN /\ snd' = [snd EXCEPT !.k = @ + 1]
            /\ pc0' = pc0
       ELSE /\ snd' = [it |-> snd.it + 1, k |-> 1]
            /\ pc0' = IF snd.it >= size - 2 THEN "own" ELSE "send"
    /\ UNCHANGED << helpers, inputs, err, builder, workers, ret0 >>

\* Lines 180-196: the next blocking send; it returns when the transport has
\* taken the message.
Send ==
    /\ pc0 = "send"
    /\ snd.k \in {3, 4} => snd.it \in DOMAIN dof_maps
    /\ Len(chan[snd.it]) < MaxBuf
    /\ chan' = [chan EXCEPT ![snd.it] =
                   Append(@, Message(mesh, cell_parts, dof_maps, id_map,
                                     snd.it, snd.k))]
    /\ IF snd.k < NMsg
       THEN /\ snd' = [snd EXCEPT !.k = @ + 1]
            /\ pc0' = pc0
       ELSE /\ snd' = [it |-> snd.it + 1, k |-> 1]
            /\ pc0' = IF snd.it = size - 1 THEN "own" ELSE "send"
    /\ UNCHANGED << helpers, inputs, err, builder, workers, ret0 >>

\* Line 185: dof_maps[it] of a task that has no dof map.
SendLookupFails ==
    /\ pc0 = "send"
    /\ snd.k = 3
    /\ snd.it \notin DOMAIN dof_maps
    /\ Raise("KeyError")
    /\ UNCHANGED << helpers, inputs, builder, transport, ret0 >>

\* Lines 198-210 and 239: the coordinator's own slice, and its return.
OwnSlice ==
    /\ pc0 = "own"
    /\ LET cells == cell_parts[0]
           global_dofs == global_conn(mesh, cells)
       IN  IF 0 \in DOMAIN dof_maps
           THEN /\ ret0' = [returned |-> TRUE, cells |-> cells,
                            range |-> << dof_maps[0].offset,
                                         dof_maps[0].offset
                                         + dof_maps[0].n_owned >>,
                            conn |-> petsc_conn(mesh, id_map, cells)]
                /\ pc0' = "done"
                /\ err' = err
           ELSE IF cells = <<>>
                THEN /\ Raise("ValueError")
                     /\ ret0' = ret0
                ELSE /\ ret0' = [returned |-> TRUE, cells |-> cells,
                                 range |-> << 0,
                                     SeqMax(Flatten(global_dofs)) + 1 >>,
                                 conn |-> global_dofs]
                     /\ pc0' = "done"
                     /\ err' = err
    /\ UNCHANGED << helpers, inputs, builder, transport >>

-----------------------------------------------------------------------------
(* The worker processes *)

\* Lines 214-229: the next blocking receive of worker w; after the last one
\* the worker returns.
Recv(w) ==
    /\ w \in Ranks
    /\ workers[w].pc \in 1..NMsg
    /\ chan[w] # <<>>
    /\ workers' = [workers EXCEPT
                     ![w] = Receive(workers[w], workers[w].pc, Head(chan[w]))]
    /\ chan' = [chan EXCEPT ![w] = Tail(@)]
    /\ UNCHANGED << helpers, inputs, pc0, err, builder, snd, ret0 >>

Next ==
    \/ GetInterFacets
    \/ TaskBegin
    \/ ClaimInterface
    \/ TaskEnd
    \/ NumberTask
    \/ CheckCells
    \/ Send
    \/ SendLookupFails
    \/ OwnSlice
    \/ \E w \in Ranks : Recv(w)

Spec == Init /\ [][Next]_vars

-----------------------------------------------------------------------------
(* Vocabulary of the properties *)

Tasks == 0..(size - 1)

\* create_task_dof_maps has returned (the coordinator is past line 172).
BuildDone ==
    \/ pc0 \in {"checks", "send", "own", "done"}
    \/ pc0 = "error" /\ err \in {"CellCount", "EmptyTask", "KeyError",
                                 "ValueError"}

\* get_inter_facets has returned.
InterFacetsDone == pc0 # "start"

InnerDofs(t) == IF t \in DOMAIN dof_maps THEN Range(dof_maps[t].inner) ELSE {}

BlockDofs(t, k) == Range(dof_maps[t].blocks[k])

NBlocks(t) == IF t \in DOMAIN dof_maps THEN Len(dof_maps[t].blocks) ELSE 0

\* The sets that hold dof d: <<t, 0>> for inner_dofs(t), <<t, k>> for the
\* k-th owned interface block of t.
Holders(d) ==
    {<<t, 0>> : t \in {u \in Tasks : d \in InnerDofs(u)}}
    \cup UNION {{<<t, k>> : k \in {j \in 1..NBlocks(t) :
                                      d \in BlockDofs(t, j)}} :
                t \in Tasks}

OwnedDofs(t) ==
    InnerDofs(t) \cup UNION {BlockDofs(t, k) : k \in 1..NBlocks(t)}

\* The facets listed under the key (t0, t1) of the InterfaceMap.
Listed(t0, t1) ==
    IF t0 \in DOMAIN inter_facets /\ t1 \in DOMAIN inter_facets[t0]
    THEN inter_facets[t0][t1] ELSE <<>>

NoRepeat(s) == \A i, j \in DOMAIN s : s[i] = s[j] => i = j

-----------------------------------------------------------------------------
(* C1 - C4 *)

\* C1: after create_task_dof_maps has completed, for any number of tasks and
\* any assignment of the cells to the tasks, every mesh dof lies in exactly
\* one of the sets inner_dofs(t), owned interface block k of t.
C1_EveryDofOwnedOnce ==
    BuildDone => \A d \in Dofs(mesh) : Cardinality(Holders(d)) = 1

\* The part of C1 that the code guarantees: no dof is ever in two of the sets,
\* and a dof of a cell whose task has an inter-task facet is in one of them.
C1_OwnedOnceWhereMapped ==
    BuildDone =>
        \A d \in Dofs(mesh) :
            /\ Cardinality(Holders(d)) <= 1
            /\ (\E c \in Cells(mesh) :
                    /\ d \in Range(mesh.econn[c])
                    /\ cell_tasks[c] \in DOMAIN inter_facets)
               => Cardinality(Holders(d)) = 1

\* C2: after create_task_dof_maps has completed, the global ids that id_map
\* gives to the inner dofs and owned interface blocks of a task t are exactly
\* the integers global_offset(t) .. global_offset(t) + owned_count(t) - 1, and
\* the ranges of two different tasks do not intersect.
C2_ContiguousRanges ==
    BuildDone =>
        /\ \A t \in DOMAIN dof_maps :
              {id_map[d] : d \in OwnedDofs(t)}
              = dof_maps[t].offset
                .. (dof_maps[t].offset + dof_maps[t].n_owned - 1)
        /\ \A t, u \in DOMAIN dof_maps :
              t # u =>
                 (dof_maps[t].offset
                    .. (dof_maps[t].offset + dof_maps[t].n_owned - 1))
                 \cap (dof_maps[u].offset
                    .. (dof_maps[u].offset + dof_maps[u].n_owned - 1)) = {}

\* Three tasks own dofs, each inner dofs and an interface block or none, and
\* the numbering is complete.
C2_Witness ==
    /\ BuildDone
    /\ Cardinality(DOMAIN dof_maps) = 3
    /\ \A t \in DOMAIN dof_maps : dof_maps[t].n_owned > 0
    /\ \E t \in DOMAIN dof_maps : NBlocks(t) >= 2

\* C3: the InterfaceMap is symmetric: the list under (t0, t1) is, element
\* for element, the list under (t1, t0); no key pair has t0 = t1; no facet is
\* repeated in a list.
C3_InterfaceMapSymmetric ==
    InterFacetsDone =>
        \A t0 \in DOMAIN inter_facets :
            \A t1 \in DOMAIN inter_facets[t0] :
                /\ t0 # t1
                /\ inter_facets[t0][t1] # <<>>
                /\ Listed(t1, t0) = inter_facets[t0][t1]
                /\ NoRepeat(inter_facets[t0][t1])

\* An interface of at least two facets, and a task with two neighbours.
C3_Witness ==
    /\ InterFacetsDone
    /\ \E t0 \in DOMAIN inter_facets :
          /\ Cardinality(DOMAIN inter_facets[t0]) >= 2
          /\ \E t1 \in DOMAIN inter_facets[t0] :
                Len(inter_facets[t0][t1]) >= 2

\* C4: a facet is listed under (t0, t1) exactly when it has two bordering
\* cells, one of task t0 and the other of task t1, and t0 # t1: facets inside
\* one task and boundary facets are listed nowhere.
C4_ExactlyInterTaskFacets ==
    InterFacetsDone =>
        \A f \in Facets(mesh) :
            LET fc == FacetCells(mesh, f)
                two == Len(fc) = 2
                ts == IF two THEN {cell_tasks[fc[1]], cell_tasks[fc[2]]}
                      ELSE {}
            IN  \A t0, t1 \in Tasks :
                    (f \in Range(Listed(t0, t1)))
                    <=> (two /\ t0 # t1 /\ ts = {t0, t1})

\* The map lists a facet while another two-cell facet lies inside one task.
C4_Witness ==
    /\ InterFacetsDone
    /\ DOMAIN inter_facets # {}
    /\ \E f \in Facets(mesh) :
          /\ Len(FacetCells(mesh, f)) = 2
          /\ cell_tasks[FacetCells(mesh, f)[1]]
             = cell_tasks[FacetCells(mesh, f)[2]]

-----------------------------------------------------------------------------
(* C5 - C8 *)

\* The dofs touched by the facets facets[a], ..., facets[b].
Touched(facets, a, b) ==
    UNION {Range(mesh.efaces[facets[i]]) : i \in a..b}

\* The blocks of task t before it has a dof map are none.
BlocksOf(dm, t) == IF t \in DOMAIN dm THEN dm[t].blocks ELSE <<>>

\* The list bl extended by one block holding exactly the dofs D, or bl
\* itself when D is empty.
Extended(bl, new, D) ==
    IF D = {} THEN new = bl
    ELSE /\ Len(new) = Len(bl) + 1
         /\ SubSeq(new, 1, Len(bl)) = bl
         /\ Range(new[Len(new)]) = D

\* C5: when task t is processed with neighbour n whose interface has m
\* facets, the still-unclaimed dofs of the first max(floor(m/2), 1) facets
\* become one new block of t, and the dofs of the remaining facets that are
\* still unclaimed after that become one new block of n: a dof touched by
\* both parts goes to t, and with m = 1 the neighbour receives nothing.
C5_SplitByIndex ==
    [][ pc0 = "inter" =>
          LET t == CurrentTask
              n == CurrentNeighbour
              facets == inter_facets[t][n]
              m == Len(facets)
              h == IF m \div 2 >= 1 THEN m \div 2 ELSE 1
              free == {d \in Dofs(mesh) : id_map[d] = 0}
              first == Touched(facets, 1, h) \cap free
              second == (Touched(facets, h + 1, m) \cap free) \ first
          IN  /\ Extended(BlocksOf(dof_maps, t), BlocksOf(dof_maps', t), first)
              /\ Extended(BlocksOf(dof_maps, n), BlocksOf(dof_maps', n), second)
              /\ m = 1 => BlocksOf(dof_maps', n) = BlocksOf(dof_maps, n)
              /\ \A d \in first \cup second : id_map'[d] # 0
      ]_vars

\* The interface just processed has two or more facets, a dof touched by both
\* parts is in the block the processed task received, and the neighbour
\* received a block as well.
C5_Witness ==
    /\ pc0 \in {"inter", "task_end"}
    /\ loop.ic_pos > 1
    /\ LET t == CurrentTask
           n == OrderedKeys(inter_facets[t])[loop.ic_pos - 1]
           facets == inter_facets[t][n]
           m == Len(facets)
       IN  /\ m >= 2
           /\ NBlocks(t) >= 1
           /\ NBlocks(n) >= 1
           /\ \E d \in Touched(facets, 1, m \div 2)
                       \cap Touched(facets, m \div 2 + 1, m) :
                 d \in BlockDofs(t, NBlocks(t))
           /\ BlockDofs(n, NBlocks(n)) \subseteq Touched(facets, 1, m)

\* The neighbour of a one-facet interface has received nothing from it.
C5_WitnessOneFacet ==
    /\ pc0 \in {"inter", "task_end"}
    /\ loop.ic_pos > 1
    /\ LET t == CurrentTask
           n == OrderedKeys(inter_facets[t])[loop.ic_pos - 1]
       IN  /\ Len(inter_facets[t][n]) = 1
           /\ t < n
           /\ NBlocks(t) >= 1
           /\ NBlocks(n) = 0

\* Sum of owned_count over the tasks of dof_maps below t.
RECURSIVE OwnedBelow(_)
OwnedBelow(t) ==
    IF t = 0 THEN 0
    ELSE OwnedBelow(t - 1)
         + (IF (t - 1) \in DOMAIN dof_maps THEN dof_maps[t - 1].n_owned ELSE 0)

\* Sum of the sizes of the blocks of t before block k.
RECURSIVE BlocksBefore(_, _)
BlocksBefore(t, k) ==
    IF k = 1 THEN 0
    ELSE BlocksBefore(t, k - 1) + Len(dof_maps[t].blocks[k - 1])

\* C6: the global ids are given task by task in increasing task id, so the
\* offsets do not decrease with the task id; in a task every inner dof has a
\* smaller id than every owned interface dof; the blocks get consecutive id
\* ranges in the order of their creation.
C6_NumberingOrder ==
    BuildDone =>
        \A t \in DOMAIN dof_maps :
            /\ dof_maps[t].offset = OwnedBelow(t)
            /\ \A u \in DOMAIN dof_maps :
                  t < u => dof_maps[t].offset <= dof_maps[u].offset
            /\ \A d \in InnerDofs(t) : \A k \in 1..NBlocks(t) :
                  \A e \in BlockDofs(t, k) : id_map[d] < id_map[e]
            /\ \A k \in 1..NBlocks(t) :
                  {id_map[e] : e \in BlockDofs(t, k)}
                  = LET lo == dof_maps[t].offset + Len(dof_maps[t].inner)
                              + BlocksBefore(t, k)
                    IN  lo .. (lo + Len(dof_maps[t].blocks[k]) - 1)

\* A numbered task with inner dofs and two owned interface blocks, and a
\* second task with a positive offset.
C6_Witness ==
    /\ BuildDone
    /\ \E t, u \in DOMAIN dof_maps :
          /\ InnerDofs(t) # {}
          /\ NBlocks(t) >= 2
          /\ dof_maps[u].offset > 0

\* The lengths of the seven messages for worker w in the fixed order: cell
\* count, cell ids, range start, range end, row count, column count,
\* connectivity.
FixedLen(w, k) ==
    CASE k = 2 -> Len(cell_parts[w])
      [] k = 7 -> Len(cell_parts[w]) * Len(mesh.econn[0])
      [] OTHER -> 1

FixedKind(k) == IF k = 2 \/ k = 7 THEN "buf" ELSE "obj"

\* C7: on every channel the messages travel in the fixed order, and the kind
\* and length the worker's next receive expects are the kind and length of
\* the next message on its channel; no receive ever meets another message.
C7_ProtocolOrder ==
    \A w \in Ranks :
        /\ workers[w].pc # 0
        /\ \A i \in 1..Len(chan[w]) :
              /\ workers[w].pc + i - 1 <= NMsg
              /\ chan[w][i].kind = FixedKind(workers[w].pc + i - 1)
              /\ Len(chan[w][i].data) = FixedLen(w, workers[w].pc + i - 1)
        /\ (chan[w] # <<>>) =>
              /\ ExpectedKind(workers[w].pc) = Head(chan[w]).kind
              /\ ExpectedLen(workers[w], workers[w].pc)
                 = Len(Head(chan[w]).data)
        /\ (pc0 = "send" /\ snd.it = w) =>
              snd.k = workers[w].pc + Len(chan[w])

\* A worker with more than one cell is about to receive its connectivity.
C7_Witness ==
    \E w \in Ranks :
        /\ workers[w].pc = NMsg
        /\ chan[w] # <<>>
        /\ Len(Head(chan[w]).data) > Len(mesh.econn[0])
        /\ w >= 2

\* Worker w has returned from distribute_field_dofs.
Returned(w) == workers[w].pc = NMsg + 1

\* C8: what distribute_field_dofs returns on worker w is what the
\* coordinator holds for task w: the cells of the task, the range
\* (global_offset, global_offset + owned_count), and the connectivity of the
\* task's cells in global ids, row by row and entry by entry.
C8_TransportFidelity ==
    \A w \in Ranks :
        Returned(w) =>
            /\ workers[w].cells = cell_parts[w]
            /\ workers[w].n_cell = Len(cell_parts[w])
            /\ << workers[w].i0, workers[w].i1 >>
               = << dof_maps[w].offset,
                    dof_maps[w].offset + dof_maps[w].n_owned >>
            /\ Len(workers[w].conn) = Len(cell_parts[w])
            /\ \A i \in 1..Len(cell_parts[w]) :
                  /\ Len(workers[w].conn[i]) = Len(mesh.econn[0])
                  /\ \A j \in 1..Len(mesh.econn[0]) :
                        workers[w].conn[i][j]
                        = id_map[mesh.econn[cell_parts[w][i]][j]]

\* Two workers have returned, one of them with several cells and a positive
\* range start.
C8_Witness ==
    /\ \A w \in Ranks : Returned(w)
    /\ Cardinality(Ranks) >= 2
    /\ \E w \in Ranks :
          /\ Len(workers[w].cells) >= 2
          /\ Len(workers[w].cells) # Len(mesh.econn[0])
          /\ workers[w].i0 > 0
          /\ workers[w].i1 > workers[w].i0

-----------------------------------------------------------------------------
(* C9 - C10 *)

\* Worker w has received all of its data.
ReceivedAll(w) == workers[w].pc = NMsg + 1

\* C9: the distribution is a barrier: no process has returned from
\* distribute_field_dofs while a worker has not yet received all of its data.
C9_Barrier ==
    (ret0.returned \/ \E w \in Ranks : Returned(w))
    => \A w \in Ranks : ReceivedAll(w)

\* C9 as the code has it: a worker returns only when it has taken every
\* message sent to it and the coordinator's send loop is past it; the
\* coordinator returns only when every message for every worker is sent;
\* whether other workers have received their data does not matter.
C9_OwnDataOnly ==
    /\ \A w \in Ranks :
          Returned(w) =>
              /\ chan[w] = <<>>
              /\ snd.it > w
    /\ ret0.returned =>
          \A w \in Ranks : (workers[w].pc - 1) + Len(chan[w]) = NMsg

\* The coordinator and worker 1 have returned while a message for worker 2
\* is still under way.
C9_Witness ==
    /\ ret0.returned
    /\ \E w, v \in Ranks :
          /\ Returned(w)
          /\ ~ReceivedAll(v)
          /\ chan[v] # <<>>

\* The cells around dof d.
CellsAt(m, d) == {c \in Cells(m) : d \in Range(m.econn[c])}

\* Cells c1 and c2 share a facet that touches d.
AdjacentAt(m, d, c1, c2) ==
    /\ c1 # c2
    /\ \E f \in Facets(m) :
          /\ d \in Range(m.efaces[f])
          /\ Range(FacetCells(m, f)) = {c1, c2}

RECURSIVE ReachAt(_, _, _)
ReachAt(m, d, S) ==
    LET T == S \cup {c \in CellsAt(m, d) :
                        \E b \in S : AdjacentAt(m, d, b, c)}
    IN  IF T = S THEN S ELSE ReachAt(m, d, T)

\* Around every dof the cells are connected through facets.
FacetConnectedAtDofs(m) ==
    \A d \in Dofs(m) :
        \A c \in CellsAt(m, d) : ReachAt(m, d, {c}) = CellsAt(m, d)

ProperMeshes == {m \in Meshes : FacetConnectedAtDofs(m)}

\* Task t has a facet in common with another task.
Borders(t) ==
    \E f \in Facets(mesh) :
        LET fc == FacetCells(mesh, f)
        IN  /\ Len(fc) = 2
            /\ cell_tasks[fc[1]] # cell_tasks[fc[2]]
            /\ t \in {cell_tasks[fc[1]], cell_tasks[fc[2]]}

\* Valid input: a proper mesh split into size tasks, none of them empty and,
\* when there are several, each with a neighbouring task.
ValidInput ==
    /\ mesh \in ProperMeshes
    /\ \A t \in Tasks : cell_parts[t] # <<>>
    /\ size > 1 => \A t \in Tasks : Borders(t)

AllReturned == pc0 = "done" /\ \A w \in Ranks : Returned(w)

\* The coordinator is at a send and its worker is at the matching receive, or
\* will be once it has taken the messages under way.
SendMatched == workers[snd.it].pc + Len(chan[snd.it]) = snd.k

\* Some process can take a step: the coordinator is neither finished nor at
\* a send the transport cannot take, or a worker has a message to receive.
CanStep ==
    \/ pc0 \in {"start", "task", "inter", "task_end", "number", "checks",
                "own"}
    \/ pc0 = "send" /\ Len(chan[snd.it]) < MaxBuf
    \/ pc0 = "send" /\ snd.k = 3 /\ snd.it \notin DOMAIN dof_maps
    \/ \E w \in Ranks : workers[w].pc \in 1..NMsg /\ chan[w] # <<>>

\* How far the processes have come: it grows with every step and is bounded,
\* so no process can go on taking steps forever.
Stride == NMsg + MaxTasks + 3

CoordProgress ==
    CASE pc0 = "start" -> 0
      [] pc0 = "task" -> Stride * Stride + loop.ir_pos * Stride
      [] pc0 = "inter" -> Stride * Stride + loop.ir_pos * Stride + loop.ic_pos
      [] pc0 = "task_end" ->
            Stride * Stride + loop.ir_pos * Stride + MaxTasks + 1
      [] pc0 = "number" -> 2 * Stride * Stride + loop.num_pos
      [] pc0 = "checks" -> 3 * Stride * Stride
      [] pc0 = "send" -> 4 * Stride * Stride + snd.it * Stride + snd.k
      [] pc0 = "own" -> 5 * Stride * Stride
      [] OTHER -> 6 * Stride * Stride

WorkerProgress ==
    sum([w \in Ranks |->
            IF workers[w].pc = 0 THEN NMsg + 2 ELSE workers[w].pc])

Progress == CoordProgress + WorkerProgress

-----------------------------------------------------------------------------
(* The resolver helper: get_local_ordering *)

\* Largest n_nod of a localized field explored.
MaxNod == 3

\* What the slots of a fresh nm.empty array may hold.
Garbage == {-1, 0}

\* The contents of nm.empty(n) that are explored.
Empty(n) == {[i \in 0..(n - 1) |-> v] : v \in Garbage}

\* The idle state of the distribution, for n processes, while the helpers
\* are exercised.
NoDistribution(n) ==
    /\ mesh = GridMesh
    /\ size = n
    /\ cell_tasks = [c \in Cells(GridMesh) |-> 0]
    /\ cell_parts = CellParts(mesh, size, cell_tasks)
    /\ pc0 = "start"
    /\ err = ""
    /\ inter_facets = EmptyDict
    /\ id_map = [d \in Dofs(mesh) |-> 0]
    /\ dof_maps = EmptyDict
    /\ count = [count |-> 0, inter_count |-> 0]
    /\ regions = <<UserRegion>>
    /\ loop = NoLoop
    /\ snd = [it |-> 1, k |-> 1]
    /\ chan = [w \in Ranks |-> <<>>]
    /\ workers = [w \in Ranks |-> NewWorker]
    /\ ret0 = NoReturn

distribution == << inputs, pc0, err, builder, transport, ret0 >>

\* The rows of one cell scattered with the global ids of the next local node.
ScatterCell_NextNode(p, erow, crow) ==
    LET n == Cardinality(DOMAIN erow)
    IN  [i \in DOMAIN p |->
            IF \E j \in DOMAIN erow : erow[j] = i
            THEN LET j == CHOOSE j \in DOMAIN erow :
                              /\ erow[j] = i
                              /\ \A k \in DOMAIN erow : erow[k] = i => k <= j
                 IN  crow[(j + 1) % n]
            ELSE p[i]]

\* One cell of petsc_dofs[econn] = petsc_dofs_conn: the local nodes of the
\* cell are taken in order, a later assignment to a slot overwriting.
ScatterCell(p, erow, crow) ==
    [i \in DOMAIN p |->
        IF \E j \in DOMAIN erow : erow[j] = i
        THEN LET j == CHOOSE j \in DOMAIN erow :
                          /\ erow[j] = i
                          /\ \A k \in DOMAIN erow : erow[k] = i => k <= j
             IN  crow[j]
        ELSE p[i]]

\* petsc_dofs[econn] = petsc_dofs_conn with the cells taken in the given
\* order.
RECURSIVE Scatter(_, _, _, _)
Scatter(p, econn, conn, order) ==
    IF order = <<>>
    THEN p
    ELSE Scatter(ScatterCell(p, econn[Head(order)], conn[Head(order)]),
                 econn, conn, Tail(order))

\* The order of the rows of an array of n rows.
RowMajor(n) == [i \in 1..n |-> i - 1]

\* Lines 245-249; empty is what nm.empty(field_i.n_nod) holds.
get_local_ordering(empty, econn, petsc_dofs_conn) ==
    Scatter(empty, econn, petsc_dofs_conn,
            RowMajor(Cardinality(DOMAIN econn)))

\* Connectivities of a localized field of n nodes: one or two cells of two
\* local nodes each.
LocalConns(n) ==
    UNION {[0..(nc - 1) -> [0..1 -> 0..(n - 1)]] : nc \in 1..2}

\* Distinct global ids of the n local nodes.
GlobalIds(n) ==
    {g \in [0..(n - 1) -> 1..n] :
        \A i, j \in 0..(n - 1) : g[i] = g[j] => i = j}

\* The global connectivity that pairs local node i with g[i].
GlobalConn(e, g) == [c \in DOMAIN e |-> [j \in DOMAIN e[c] |-> g[e[c][j]]]]

\* The received global connectivities tried with econn e: the one of g, and
\* the ones that differ from it in the first local node of one cell.
ReceivedConns(e, g) ==
    {GlobalConn(e, g)}
    \cup {[GlobalConn(e, g) EXCEPT ![c][0] = @ + 1] : c \in DOMAIN e}

\* A call of get_local_ordering on arguments of the explored sizes.
LocalOrderingCall ==
    \E n \in 2..MaxNod : \E e \in LocalConns(n) : \E g \in GlobalIds(n) :
        \E conn \in ReceivedConns(e, g) :
            call = [fn |-> "get_local_ordering", n_nod |-> n, econn |-> e,
                    petsc_dofs_conn |-> conn]

GetLocalOrdering ==
    /\ call.fn = "get_local_ordering"
    /\ ~out.done
    /\ \E empty \in Empty(call.n_nod) :
          out' = [done |-> TRUE, empty |-> empty,
                  value |-> get_local_ordering(empty, call.econn,
                                               call.petsc_dofs_conn)]
    /\ UNCHANGED << distribution, call, pmtx, prhs, asm >>

-----------------------------------------------------------------------------
(* The resolver helpers: get_sizes and expand_dofs *)

\* Largest number of dofs of the field explored.
MaxDof == 4
\* Largest number of components of a dof explored.
MaxComponents == 2

\* get_sizes with the local size left in dofs.
get_sizes_LocalInDofs(petsc_dofs_range, n_dof, n_components) ==
    LET drange == << n_components * petsc_dofs_range[1],
                     n_components * petsc_dofs_range[2] >>
        n_loc == petsc_dofs_range[2] - petsc_dofs_range[1]
        n_all_dof == n_dof * n_components
    IN  [sizes |-> << n_loc, n_all_dof >>, drange |-> drange]

\* Lines 251-260.
get_sizes(petsc_dofs_range, n_dof, n_components) ==
    LET drange == << n_components * petsc_dofs_range[1],
                     n_components * petsc_dofs_range[2] >>
        n_loc == drange[2] - drange[1]
        n_all_dof == n_dof * n_components
    IN  [sizes |-> << n_loc, n_all_dof >>, drange |-> drange]

\* A call of get_sizes: an owned range within the n_dof dofs of the field.
SizesCall ==
    \E n_dof \in 0..MaxDof : \E i1 \in 0..n_dof : \E i0 \in 0..i1 :
        \E nc \in 1..MaxComponents :
            call = [fn |-> "get_sizes", petsc_dofs_range |-> << i0, i1 >>,
                    n_dof |-> n_dof, n_components |-> nc]

GetSizes ==
    /\ call.fn = "get_sizes"
    /\ ~out.done
    /\ out' = [done |-> TRUE,
               value |-> get_sizes(call.petsc_dofs_range, call.n_dof,
                                   call.n_components)]
    /\ UNCHANGED << distribution, call, pmtx, prhs, asm >>

\* The slice assignment with the components in blocks, not interleaved.
ExpandComponent_Blocked(edofs, dofs, n_components, idof) ==
    LET n == Cardinality(DOMAIN dofs)
    IN  [k \in DOMAIN edofs |->
            IF idof * n <= k /\ k < (idof + 1) * n
            THEN n_components * dofs[k - idof * n] + idof
            ELSE edofs[k]]

\* Lines 268-269: edofs[idof::n_components] = n_components * dofs + idof.
ExpandComponent(edofs, dofs, n_components, idof) ==
    [k \in DOMAIN edofs |->
        IF k % n_components = idof
        THEN n_components * dofs[(k - idof) \div n_components] + idof
        ELSE edofs[k]]

\* Lines 267-269: the loop over the components, from component idof on.
RECURSIVE ExpandLoop(_, _, _, _)
ExpandLoop(edofs, dofs, n_components, idof) ==
    IF idof >= n_components
    THEN edofs
    ELSE ExpandLoop(ExpandComponent(edofs, dofs, n_components, idof),
                    dofs, n_components, idof + 1)

\* Lines 262-271; empty is what nm.empty holds.
expand_dofs(empty, dofs, n_components) ==
    ExpandLoop(empty, dofs, n_components, 0)

\* Arrays of distinct dof ids.
DofArrays ==
    UNION {{d \in [0..(n - 1) -> 0..(MaxDof - 1)] :
               \A i, j \in 0..(n - 1) : d[i] = d[j] => i = j}
           : n \in 0..MaxDof}

\* A call of expand_dofs.
ExpandCall ==
    \E dofs \in DofArrays : \E nc \in 1..MaxComponents :
        call = [fn |-> "expand_dofs", dofs |-> dofs, n_components |-> nc]

ExpandDofs ==
    /\ call.fn = "expand_dofs"
    /\ ~out.done
    /\ \E empty \in Empty(call.n_components * Cardinality(DOMAIN call.dofs)) :
          out' = [done |-> TRUE,
                  value |-> expand_dofs(empty, call.dofs, call.n_components)]
    /\ UNCHANGED << distribution, call, pmtx, prhs, asm >>

-----------------------------------------------------------------------------
(* The assembler helper: apply_ebc_to_matrix *)

\* Largest number of rows of a local matrix explored.
MaxRows == 2

\* The scipy CSR matrix of n rows whose row r stores the columns
\* pattern[r] in increasing order; the stored values are v, 2v, 3v, ...
CsrMatrix(n, pattern, v) ==
    LET rows == [i \in 1..n |-> SortedSeq(pattern[i - 1])]
        indices == Arr(concatenate(rows))
    IN  [indptr |-> [r \in 0..n |-> sum([i \in 1..r |-> Len(rows[i])])],
         indices |-> indices,
         data |-> [ic \in DOMAIN indices |-> v * (ic + 1)]]

\* The number of rows of a CSR matrix.
n_row(mtx) == Cardinality(DOMAIN mtx.indptr) - 1

\* EbcRow with the loop running one stored entry past the end of the row.
EbcRow_OnePast(data, prows, cols, ir) ==
    [ic \in DOMAIN data |->
        IF prows[ir] <= ic /\ ic <= prows[ir + 1]
        THEN IF cols[ic] = ir THEN 1 ELSE 0
        ELSE data[ic]]

\* Lines 301-306: the loop over the stored entries of row ir.
EbcRow(data, prows, cols, ir) ==
    [ic \in DOMAIN data |->
        IF prows[ir] <= ic /\ ic < prows[ir + 1]
        THEN IF cols[ic] = ir THEN 1 ELSE 0
        ELSE data[ic]]

\* Lines 300-306: the loop over ebc_rows.
RECURSIVE EbcLoop(_, _, _, _)
EbcLoop(data, prows, cols, ebc_rows) ==
    IF ebc_rows = <<>>
    THEN data
    ELSE EbcLoop(EbcRow(data, prows, cols, Head(ebc_rows)), prows, cols,
                 Tail(ebc_rows))

\* Lines 293-306: the matrix is changed in place.
apply_ebc_to_matrix(mtx, eq_ebc) ==
    [mtx EXCEPT !.data = EbcLoop(mtx.data, mtx.indptr, mtx.indices, eq_ebc)]

\* A call of apply_ebc_to_matrix: a square CSR matrix and the list of its
\* constrained rows.
EbcCall ==
    \E n \in 1..MaxRows : \E pattern \in [0..(n - 1) -> SUBSET (0..(n - 1))] :
        \E v \in {-1, 2} : \E rows \in SUBSET (0..(n - 1)) :
            call = [fn |-> "apply_ebc_to_matrix",
                    mtx |-> CsrMatrix(n, pattern, v),
                    eq_ebc |-> SortedSeq(rows)]

ApplyEbc ==
    /\ call.fn = "apply_ebc_to_matrix"
    /\ ~out.done
    /\ out' = [done |-> TRUE,
               mtx |-> apply_ebc_to_matrix(call.mtx, call.eq_ebc)]
    /\ UNCHANGED << distribution, call, pmtx, prhs, asm >>

-----------------------------------------------------------------------------
(* The specification of the resolver and assembler helper functions: one    *)
(* call of one helper on arguments drawn from bounded sets.                  *)

HelperCall ==
    \/ LocalOrderingCall
    \/ SizesCall
    \/ ExpandCall
    \/ EbcCall

HelperInit ==
    /\ NoDistribution(1)
    /\ HelperCall
    /\ out = NoOut
    /\ pmtx = NoMat
    /\ prhs = NoMat
    /\ asm = << >>

HelperNext ==
    \/ GetLocalOrdering
    \/ GetSizes
    \/ ExpandDofs
    \/ ApplyEbc

HelperSpec == HelperInit /\ [][HelperNext]_vars

-----------------------------------------------------------------------------
(* Properties of the resolver helpers *)

\* The local and the global connectivity agree: a local node is paired with
\* the same global id wherever it occurs.
Agree(econn, conn) ==
    \A c1, c2 \in DOMAIN econn : \A j1, j2 \in DOMAIN econn[c1] :
        econn[c1][j1] = econn[c2][j2] => conn[c1][j1] = conn[c2][j2]

\* All orders in which the cells 0..n-1 can be taken.
CellOrders(n) ==
    {o \in [1..n -> 0..(n - 1)] : \A i, j \in 1..n : o[i] = o[j] => i = j}

Returned11 ==
    /\ call.fn = "get_local_ordering"
    /\ out.done

\* C11: when the local connectivity and the received global connectivity
\* agree, get_local_ordering returns an array p with
\* p[econn[c][j]] = petsc_dofs_conn[c][j] for every cell c and local node j,
\* and scattering the cells in any other order gives the same array.
C11_LocalOrdering ==
    (Returned11 /\ Agree(call.econn, call.petsc_dofs_conn)) =>
        /\ \A c \in DOMAIN call.econn : \A j \in DOMAIN call.econn[c] :
              out.value[call.econn[c][j]] = call.petsc_dofs_conn[c][j]
        /\ \A o \in CellOrders(Cardinality(DOMAIN call.econn)) :
              Scatter(out.empty, call.econn, call.petsc_dofs_conn, o)
                  = out.value

\* An agreeing call has returned in which two cells share a local node and
\* differ in another one.
C11_Witness ==
    /\ Returned11
    /\ Agree(call.econn, call.petsc_dofs_conn)
    /\ Cardinality(DOMAIN call.econn) = 2
    /\ call.econn[0][1] = call.econn[1][0]
    /\ call.econn[0][0] # call.econn[1][1]
    /\ call.econn[0][0] # call.econn[0][1]

Returned12 ==
    /\ call.fn = "get_sizes"
    /\ out.done

\* C12: for an owned dof range (start, end), n_dof dofs and n_components
\* components get_sizes returns local_size = n_components * (end - start),
\* total_size = n_components * n_dof and the equation range
\* (n_components * start, n_components * end), whose members are exactly
\* the equation ids n_components * d + c of the owned dofs d and the
\* components c.
C12_Sizes ==
    Returned12 =>
        LET i0 == call.petsc_dofs_range[1]
            i1 == call.petsc_dofs_range[2]
            nc == call.n_components
        IN  /\ out.value.sizes = << nc * (i1 - i0), nc * call.n_dof >>
            /\ out.value.drange = << nc * i0, nc * i1 >>
            /\ out.value.drange[1]..(out.value.drange[2] - 1)
                  = {nc * d + c : d \in i0..(i1 - 1), c \in 0..(nc - 1)}

\* get_sizes has returned for several owned dofs that do not start at 0, of
\* more than one component.
C12_Witness ==
    /\ Returned12
    /\ call.n_components > 1
    /\ call.petsc_dofs_range[1] > 0
    /\ call.petsc_dofs_range[2] > call.petsc_dofs_range[1] + 1
    /\ call.n_dof > call.petsc_dofs_range[2]

Returned13 ==
    /\ call.fn = "expand_dofs"
    /\ out.done

\* C13: expand_dofs returns an array e of length n_components * len(dofs)
\* with e[n_components * i + c] = n_components * dofs[i] + c; distinct
\* (dof, component) pairs get distinct equation ids, and when dofs holds
\* all of 0..N-1 the equation ids are exactly 0..n_components*N-1.
C13_ExpandBijection ==
    Returned13 =>
        LET nc == call.n_components
            n == Cardinality(DOMAIN call.dofs)
            e == out.value
        IN  /\ DOMAIN e = 0..(nc * n - 1)
            /\ \A i \in 0..(n - 1) : \A c \in 0..(nc - 1) :
                  e[nc * i + c] = nc * call.dofs[i] + c
            /\ \A k1, k2 \in DOMAIN e : e[k1] = e[k2] => k1 = k2
            /\ {call.dofs[i] : i \in DOMAIN call.dofs} = 0..(n - 1)
                  => {e[k] : k \in DOMAIN e} = 0..(nc * n - 1)

\* expand_dofs has returned for all the dofs 0..N-1, not in increasing
\* order, of more than one component.
C13_Witness ==
    /\ Returned13
    /\ call.n_components > 1
    /\ Cardinality(DOMAIN call.dofs) > 2
    /\ {call.dofs[i] : i \in DOMAIN call.dofs}
          = 0..(Cardinality(DOMAIN call.dofs) - 1)
    /\ call.dofs[0] > call.dofs[1]

-----------------------------------------------------------------------------
(* Properties of apply_ebc_to_matrix *)

Returned14 ==
    /\ call.fn = "apply_ebc_to_matrix"
    /\ out.done

\* The positions of the stored entries of row ir.
RowEntries(mtx, ir) == mtx.indptr[ir]..(mtx.indptr[ir + 1] - 1)

\* The positions of the stored nonzero entries of row ir.
NonZeros(mtx, ir) == {ic \in RowEntries(mtx, ir) : mtx.data[ic] # 0}

\* Row ir has exactly one nonzero entry, it is 1.0 and it is in the
\* diagonal column.
UnitRow(mtx, ir) ==
    /\ Cardinality(NonZeros(mtx, ir)) = 1
    /\ \A ic \in NonZeros(mtx, ir) : mtx.indices[ic] = ir /\ mtx.data[ic] = 1

\* The sparsity pattern of row ir stores the diagonal entry.
StoresDiagonal(mtx, ir) == \E ic \in RowEntries(mtx, ir) : mtx.indices[ic] = ir

\* C14: after apply_ebc_to_matrix every constrained row has exactly one
\* nonzero entry, equal to 1.0, in the diagonal column, whatever the CSR
\* matrix and the constrained rows, a row that stores no diagonal entry
\* included.
C14_UnitRows ==
    Returned14 => \A i \in DOMAIN call.eq_ebc : UnitRow(out.mtx, call.eq_ebc[i])

\* What holds: a constrained row that stores its diagonal entry becomes a
\* unit row, a constrained row that does not becomes a zero row, and the
\* other rows and the sparsity pattern are left as they were.
C14_UnitRowsWhereDiagonalStored ==
    Returned14 =>
        /\ out.mtx.indptr = call.mtx.indptr
        /\ out.mtx.indices = call.mtx.indices
        /\ \A ir \in 0..(n_row(call.mtx) - 1) :
              IF ir \in Range(call.eq_ebc)
              THEN IF StoresDiagonal(call.mtx, ir)
                   THEN UnitRow(out.mtx, ir)
                   ELSE NonZeros(out.mtx, ir) = {}
              ELSE \A ic \in RowEntries(call.mtx, ir) :
                      out.mtx.data[ic] = call.mtx.data[ic]

\* apply_ebc_to_matrix has returned for a constrained row that stores
\* off-diagonal entries and no diagonal entry.
C14_NoDiagonalStored ==
    /\ Returned14
    /\ \E i \in DOMAIN call.eq_ebc :
          /\ ~StoresDiagonal(call.mtx, call.eq_ebc[i])
          /\ RowEntries(call.mtx, call.eq_ebc[i]) # {}

-----------------------------------------------------------------------------
(* The distributed assembler: assemble_to_petsc, one call by every task *)

\* Largest number of tasks that assemble into the distributed system.
MaxAsmTasks == 2

\* PETSc.InsertMode.INSERT_VALUES: an inserted value replaces the entry.
InsertMode_Insert == "INSERT_VALUES"

\* Lines 316 and 321: PETSc.InsertMode.ADD_VALUES.
InsertMode == "ADD_VALUES"

\* The equation ids of a distributed system of n equations.
Eqs(n) == 0..(n - 1)

\* Local index i can be mapped by the local-to-global map to an equation of
\* the distributed system.
Mappable(lgmap, n_eq, i) == i \in DOMAIN lgmap /\ lgmap[i] \in Eqs(n_eq)

\* The row of the stored entry at position ic of a CSR matrix.
RowOf(mtx, ic) ==
    CHOOSE r \in 0..(n_row(mtx) - 1) :
        mtx.indptr[r] <= ic /\ ic < mtx.indptr[r + 1]

\* Row r of the local matrix can be inserted: its index and the column
\* indices of its stored entries can be mapped.
RowInsertable(lgmap, n_eq, mtx, r) ==
    /\ Mappable(lgmap, n_eq, r)
    /\ \A ic \in mtx.indptr[r]..(mtx.indptr[r + 1] - 1) :
          Mappable(lgmap, n_eq, mtx.indices[ic])

\* Mat.setValuesLocalCSR: the rows are inserted one after the other, and the
\* first row that cannot be mapped ends the call with an error, the rows
\* before it inserted.
setValuesLocalCSR(lgmap, n_eq, mtx, addv) ==
    LET rows == 0..(n_row(mtx) - 1)
        bad == {r \in rows : ~RowInsertable(lgmap, n_eq, mtx, r)}
        stop == IF bad = {} THEN n_row(mtx)
                ELSE CHOOSE r \in bad : \A q \in bad : r <= q
    IN  [failed |-> bad # {},
         entries |-> [k \in 1..mtx.indptr[stop] |->
                         [I |-> lgmap[RowOf(mtx, k - 1)],
                          J |-> lgmap[mtx.indices[k - 1]],
                          v |-> mtx.data[k - 1],
                          addv |-> addv]]]

\* Vec.setValuesLocal: the local indices are mapped first, an index that
\* cannot be mapped ends the call with an error and nothing inserted.
setValuesLocal(lgmap, n_eq, indices, values, addv) ==
    LET bad == {k \in DOMAIN indices : ~Mappable(lgmap, n_eq, indices[k])}
    IN  [failed |-> bad # {},
         entries |-> IF bad # {} THEN << >>
                     ELSE [k \in 1..Cardinality(DOMAIN indices) |->
                              [I |-> lgmap[indices[k - 1]],
                               v |-> values[k - 1],
                               addv |-> addv]]]

\* One inserted value taken into an entry.
Combine(old, e) == IF e.addv = "ADD_VALUES" THEN old + e.v ELSE e.v

\* The value of an entry after the values inserted into it are taken in, in
\* the order of their insertion.
RECURSIVE CombineAll(_, _)
CombineAll(old, es) ==
    IF es = << >> THEN old
    ELSE CombineAll(Combine(old, Head(es)), Tail(es))

\* Mat.assemble: the inserted values are taken into the matrix in the order
\* of their insertion.
MatAssembled(vals, stash) ==
    [ij \in DOMAIN vals |->
        CombineAll(vals[ij],
                   SelectSeq(stash, LAMBDA e : << e.I, e.J >> = ij))]

\* Vec.assemble.
VecAssembled(vals, stash) ==
    [i \in DOMAIN vals |->
        CombineAll(vals[i], SelectSeq(stash, LAMBDA e : e.I = i))]

\* assemble_to_petsc that returns after the insertion into the vector.
AfterCall_NoVecAssemble(pc) ==
    CASE pc = "mat_set" -> "mat_assemble"
      [] pc = "mat_assemble" -> "vec_set"
      [] pc = "vec_set" -> "done"
      [] pc = "vec_assemble" -> "done"

\* Lines 312-322: the position of a task after the PETSc call at pc has
\* returned.
AfterCall(pc) ==
    CASE pc = "mat_set" -> "mat_assemble"
      [] pc = "mat_assemble" -> "vec_set"
      [] pc = "vec_set" -> "vec_assemble"
      [] pc = "vec_assemble" -> "done"

\* The local matrices that are explored: the full matrix of two rows, and
\* the diagonal matrix of three rows.
LocalMatrices(v) ==
    {CsrMatrix(2, [r \in 0..1 |-> 0..1], v),
     CsrMatrix(3, [r \in 0..2 |-> {r}], v)}

\* The local systems of task t that are explored, for 3 equations: the map
\* pdofs of two local equations, which may name an equation that does not
\* exist; a local matrix of two rows, or of three, one more than the map
\* has; a right-hand side of two entries, or of three.
LocalSystems(t) ==
    {[pc |-> "mat_set", err |-> "",
      pdofs |-> Arr(pd),
      mtx |-> m,
      rhs |-> [i \in 0..(n - 1) |-> 10 * (t + 1) + i]]
     : pd \in {<< 0, 1 >>, << 1, 2 >>, << 1, 3 >>},
       m \in LocalMatrices(t + 1), n \in 2..3}

\* Every task is about to call assemble_to_petsc on its local system; every
\* entry of the distributed matrix and vector holds the prior value x.
AssembleInit ==
    /\ \E n \in 1..MaxAsmTasks : NoDistribution(n)
    /\ \E x \in {0, 5} :
          /\ call = [fn |-> "assemble_to_petsc", n_eq |-> 3, prior |-> x]
          /\ pmtx = [vals |-> [ij \in Eqs(3) \X Eqs(3) |-> x],
                     stash |-> << >>]
          /\ prhs = [vals |-> [i \in Eqs(3) |-> x], stash |-> << >>]
    /\ out = NoOut
    /\ asm \in [0..(size - 1) -> UNION {LocalSystems(t) : t \in 0..(size - 1)}]
    /\ \A t \in 0..(size - 1) : asm[t] \in LocalSystems(t)

\* Lines 312-316: the local-to-global map is created and set, and the local
\* matrix is inserted.
MatSetValues(t) ==
    /\ t \in DOMAIN asm
    /\ asm[t].pc = "mat_set"
    /\ LET res == setValuesLocalCSR(asm[t].pdofs, call.n_eq, asm[t].mtx,
                                    InsertMode)
       IN  /\ pmtx' = [pmtx EXCEPT !.stash = @ \o res.entries]
           /\ asm' = [asm EXCEPT
                        ![t].pc = IF res.failed THEN "error"
                                  ELSE AfterCall("mat_set"),
                        ![t].err = IF res.failed THEN "mat_set" ELSE @]
    /\ UNCHANGED << distribution, call, out, prhs >>

\* MatAssemble that returns in a task without waiting for the other tasks.
MatAssemble_NotCollective ==
    /\ \E t \in DOMAIN asm :
          /\ asm[t].pc = "mat_assemble"
          /\ asm' = [asm EXCEPT ![t].pc = AfterCall("mat_assemble")]
    /\ pmtx' = [vals |-> MatAssembled(pmtx.vals, pmtx.stash), stash |-> << >>]
    /\ UNCHANGED << distribution, call, out, prhs >>

\* Line 317: pmtx.assemble() is collective: it returns in every task once
\* every task has called it.
MatAssemble ==
    /\ \A t \in DOMAIN asm : asm[t].pc = "mat_assemble"
    /\ pmtx' = [vals |-> MatAssembled(pmtx.vals, pmtx.stash), stash |-> << >>]
    /\ asm' = [t \in DOMAIN asm |->
                  [asm[t] EXCEPT !.pc = AfterCall("mat_assemble")]]
    /\ UNCHANGED << distribution, call, out, prhs >>

\* Lines 319-321: the right-hand side is inserted.
VecSetValues(t) ==
    /\ t \in DOMAIN asm
    /\ asm[t].pc = "vec_set"
    /\ LET n == Cardinality(DOMAIN asm[t].rhs)
           res == setValuesLocal(asm[t].pdofs, call.n_eq,
                                 [i \in 0..(n - 1) |-> i], asm[t].rhs,
                                 InsertMode)
       IN  /\ prhs' = [prhs EXCEPT !.stash = @ \o res.entries]
           /\ asm' = [asm EXCEPT
                        ![t].pc = IF res.failed THEN "error"
                                  ELSE AfterCall("vec_set"),
                        ![t].err = IF res.failed THEN "vec_set" ELSE @]
    /\ UNCHANGED << distribution, call, out, pmtx >>

\* Line 322: prhs.assemble() is collective.
VecAssemble ==
    /\ \A t \in DOMAIN asm : asm[t].pc = "vec_assemble"
    /\ prhs' = [vals |-> VecAssembled(prhs.vals, prhs.stash), stash |-> << >>]
    /\ asm' = [t \in DOMAIN asm |->
                  [asm[t] EXCEPT !.pc = AfterCall("vec_assemble")]]
    /\ UNCHANGED << distribution, call, out, pmtx >>

AssembleNext ==
    \/ \E t \in DOMAIN asm : MatSetValues(t)
    \/ MatAssemble
    \/ \E t \in DOMAIN asm : VecSetValues(t)
    \/ VecAssemble

AssembleSpec == AssembleInit /\ [][AssembleNext]_vars

-----------------------------------------------------------------------------
(* Properties of the distributed assembler *)

AsmTasks == DOMAIN asm

\* Every task has returned from assemble_to_petsc.
AllAssembled ==
    /\ call.fn = "assemble_to_petsc"
    /\ \A t \in AsmTasks : asm[t].pc = "done"

\* The sum of the local matrix values of task t mapped to entry (I, J).
MatContribution(t, I, J) ==
    LET m == asm[t].mtx
        pd == asm[t].pdofs
        nnz == Cardinality(DOMAIN m.indices)
    IN  sum([k \in 1..nnz |->
                IF pd[RowOf(m, k - 1)] = I /\ pd[m.indices[k - 1]] = J
                THEN m.data[k - 1] ELSE 0])

\* The sum of the local right-hand side values of task t mapped to entry I.
VecContribution(t, I) ==
    LET n == Cardinality(DOMAIN asm[t].rhs)
    IN  sum([k \in 1..n |->
                IF asm[t].pdofs[k - 1] = I THEN asm[t].rhs[k - 1] ELSE 0])

\* The tasks in increasing order.
TaskSeq == [k \in 1..Cardinality(AsmTasks) |-> k - 1]

\* C15: after every task has called assemble_to_petsc once, every entry
\* (I, J) of the distributed matrix is its prior value plus the sum, over
\* the tasks and the local entries (i, j) with pdofs[i] = I and pdofs[j] = J,
\* of the local matrix values, and every entry I of the distributed vector
\* is its prior value plus the sum of the local right-hand side values
\* mapped to I.
C15_AdditiveAssembly ==
    AllAssembled =>
        /\ \A I, J \in Eqs(call.n_eq) :
              pmtx.vals[<< I, J >>]
                  = call.prior
                    + sum([k \in DOMAIN TaskSeq |->
                              MatContribution(TaskSeq[k], I, J)])
        /\ \A I \in Eqs(call.n_eq) :
              prhs.vals[I]
                  = call.prior
                    + sum([k \in DOMAIN TaskSeq |->
                              VecContribution(TaskSeq[k], I)])

\* Every task has returned, two tasks have contributed to the same
\* equation through different maps, and the prior values were not zero.
C15_Witness ==
    /\ AllAssembled
    /\ call.prior # 0
    /\ \E t1, t2 \in AsmTasks :
          /\ t1 # t2
          /\ asm[t1].pdofs # asm[t2].pdofs
          /\ Range(asm[t1].pdofs) \cap Range(asm[t2].pdofs) # {}

\* The orders in which the tasks can insert.
TaskOrders == CellOrders(Cardinality(AsmTasks))

\* What the tasks insert into the matrix, taken in the order o.
MatInserted(o) ==
    concatenate([k \in DOMAIN o |->
        setValuesLocalCSR(asm[o[k]].pdofs, call.n_eq, asm[o[k]].mtx,
                          InsertMode).entries])

\* What the tasks insert into the vector, taken in the order o.
VecInserted(o) ==
    concatenate([k \in DOMAIN o |->
        LET n == Cardinality(DOMAIN asm[o[k]].rhs)
        IN  setValuesLocal(asm[o[k]].pdofs, call.n_eq,
                           [i \in 0..(n - 1) |-> i], asm[o[k]].rhs,
                           InsertMode).entries])

PriorMat == [ij \in Eqs(call.n_eq) \X Eqs(call.n_eq) |-> call.prior]
PriorVec == [i \in Eqs(call.n_eq) |-> call.prior]

\* Every task has inserted into the matrix and waits for its finalize.
AllAtMatAssemble ==
    /\ call.fn = "assemble_to_petsc"
    /\ \A t \in AsmTasks : asm[t].pc = "mat_assemble"

\* Every task has inserted into the vector and waits for its finalize.
AllAtVecAssemble ==
    /\ call.fn = "assemble_to_petsc"
    /\ \A t \in AsmTasks : asm[t].pc = "vec_assemble"

\* C16: the finalized matrix and vector do not depend on the order in which
\* the tasks inserted: finalizing what was inserted, in the order of the
\* run, gives what any other order of the tasks gives, and the finalized
\* content is the one of every order of the tasks.
C16_OrderIndependent ==
    /\ AllAtMatAssemble =>
          \A o \in TaskOrders :
              MatAssembled(pmtx.vals, pmtx.stash)
                  = MatAssembled(pmtx.vals, MatInserted(o))
    /\ AllAtVecAssemble =>
          \A o \in TaskOrders :
              /\ VecAssembled(prhs.vals, prhs.stash)
                    = VecAssembled(prhs.vals, VecInserted(o))
              /\ pmtx.vals = MatAssembled(PriorMat, MatInserted(o))
    /\ AllAssembled =>
          \A o \in TaskOrders :
              /\ pmtx.vals = MatAssembled(PriorMat, MatInserted(o))
              /\ prhs.vals = VecAssembled(PriorVec, VecInserted(o))

\* The tasks have inserted into the vector in another order than that of
\* their ids, different values into a common entry.
C16_Witness ==
    /\ AllAtVecAssemble
    /\ Cardinality(AsmTasks) > 1
    /\ prhs.stash # VecInserted(TaskSeq)
    /\ \E k1, k2 \in DOMAIN prhs.stash :
          /\ prhs.stash[k1].I = prhs.stash[k2].I
          /\ prhs.stash[k1].v # prhs.stash[k2].v

\* C17: in assemble_to_petsc the finalize of the matrix follows the
\* insertion into the matrix, and the finalize of the vector the insertion
\* into the vector, before the function returns: a task that is past the
\* matrix finalize sees no unfinalized matrix entry, and a task that has
\* returned sees no unfinalized entry of the matrix or the vector.
C17_FinalizedOnReturn ==
    call.fn = "assemble_to_petsc" =>
        \A t \in AsmTasks :
            /\ asm[t].pc \in {"vec_set", "vec_assemble", "done"}
                  => pmtx.stash = << >>
            /\ asm[t].pc = "done"
                  => pmtx.stash = << >> /\ prhs.stash = << >>

\* A task has returned, and its values are in the matrix and the vector.
C17_Witness ==
    /\ AllAssembled
    /\ pmtx.vals # PriorMat
    /\ prhs.vals # PriorVec

\* The matrix entries that the tasks other than t have inserted so far.
MatInsertedByOthers(t) ==
    concatenate([k \in DOMAIN TaskSeq |->
        IF TaskSeq[k] = t \/ asm[TaskSeq[k]].pc = "mat_set"
        THEN << >>
        ELSE MatInserted(<< TaskSeq[k] >>)])

\* The vector entries that the tasks other than t have inserted so far.
VecInsertedByOthers(t) ==
    concatenate([k \in DOMAIN TaskSeq |->
        IF TaskSeq[k] = t
           \/ asm[TaskSeq[k]].pc \in {"mat_set", "mat_assemble", "vec_set",
                                      "error"}
        THEN << >>
        ELSE VecInserted(<< TaskSeq[k] >>)])

\* The call of task t has failed.
Failed(t) == call.fn = "assemble_to_petsc" /\ asm[t].pc = "error"

\* C18: when assemble_to_petsc fails in a task, because of a size mismatch,
\* a malformed local-to-global map or a right-hand side longer than the
\* map, the call has changed neither the distributed matrix nor the
\* distributed vector: they hold what the other tasks have put in.
C18_AllOrNothing ==
    \A t \in AsmTasks :
        Failed(t) =>
            /\ MatAssembled(pmtx.vals, pmtx.stash)
                  = MatAssembled(PriorMat, MatInsertedByOthers(t))
            /\ VecAssembled(prhs.vals, prhs.stash)
                  = VecAssembled(PriorVec, VecInsertedByOthers(t))

\* What holds of a failed call: it has not changed the distributed vector.
C18_VectorUnchangedOnFailure ==
    \A t \in AsmTasks :
        Failed(t) =>
            VecAssembled(prhs.vals, prhs.stash)
                = VecAssembled(PriorVec, VecInsertedByOthers(t))

\* The call of a task has failed at the insertion into the vector, after
\* the matrix was finalized with the values of the task.
C18_FailedAfterMatrix ==
    \E t \in AsmTasks :
        /\ Failed(t)
        /\ asm[t].err = "vec_set"
        /\ pmtx.stash = << >>
        /\ pmtx.vals # MatAssembled(PriorMat, MatInsertedByOthers(t))

\* The call of a task has failed at the insertion into the matrix, after
\* some of the rows were inserted.
C18_FailedWithinMatrix ==
    \E t \in AsmTasks :
        /\ Failed(t)
        /\ asm[t].err = "mat_set"
        /\ MatInserted(<< t >>) # << >>

-----------------------------------------------------------------------------
(* C19 - C20: the checks of the coordinator *)

\* A task of the partition owns no cell.
EmptyTask == \E t \in Tasks : cell_parts[t] = << >>

\* The coordinator has sent nothing to any worker.
NothingSent ==
    /\ snd = [it |-> 1, k |-> 1]
    /\ \A w \in Ranks : chan[w] = << >> /\ workers[w] = NewWorker

\* C19: when a task of the partition owns no cell, distribute_field_dofs
\* of the coordinator goes no further than the check of the partition,
\* fails there (and with no other error after it), and nothing is ever sent
\* to a worker.
C19_EmptyTaskRejected ==
    EmptyTask =>
        /\ pc0 \notin {"send", "own", "done"}
        /\ pc0 = "error" => err \notin {"KeyError", "ValueError"}
        /\ NothingSent

\* What happens instead: with a task that owns no cell the coordinator has
\* passed the check of the partition and has sent to a worker.
C19_SentDespiteEmptyTask ==
    /\ EmptyTask
    /\ ~NothingSent

\* The sum of owned_count over the tasks that have a dof map.
TotalOwned ==
    sum([k \in DOMAIN OrderedKeys(dof_maps) |->
            dof_maps[OrderedKeys(dof_maps)[k]].n_owned])

\* C20: create_task_dof_maps never returns with the sum of owned_count over
\* the tasks different from the number of mesh dofs, and it never goes on,
\* or returns, with a dof claimed twice: the attempt ends in an error.
C20_BuilderChecksNumbering ==
    /\ BuildDone => TotalOwned = mesh.n_nod
    /\ pc0 # "error" => \A d \in Dofs(mesh) : Cardinality(Holders(d)) <= 1

\* What holds: the builder never goes on with a dof claimed twice, and what
\* it returns agrees with its own count of the claimed dofs; the count is
\* compared with nothing.
C20_ConflictIsFatal ==
    /\ pc0 # "error" => \A d \in Dofs(mesh) : Cardinality(Holders(d)) <= 1
    /\ BuildDone => TotalOwned = count.count

\* The builder has ended with a claim conflict.
C20_ConflictRaised == pc0 = "error" /\ err = "ClaimConflict"

\* The builder has returned dof maps that own fewer dofs than the mesh has,
\* for tasks that all own cells.
C20_ReturnedTooFew ==
    /\ BuildDone
    /\ ~EmptyTask
    /\ DOMAIN dof_maps # {}
    /\ TotalOwned < mesh.n_nod

-----------------------------------------------------------------------------
(* C21 - C22 *)

\* C21: the region list of the domain never holds more than one helper
\* region, it is the list at entry whenever the processing of a task
\* begins, and it is the list at entry when create_task_dof_maps has
\* returned.
C21_RegionsRestored ==
    /\ Len(regions) <= 2
    /\ regions[1] = UserRegion
    /\ pc0 \in {"task", "number"} => regions = << UserRegion >>
    /\ BuildDone => regions = << UserRegion >>

\* create_task_dof_maps has returned after it has processed several tasks.
C21_Witness ==
    /\ pc0 = "checks"
    /\ Cardinality(DOMAIN dof_maps) > 2
    /\ regions = << UserRegion >>

\* C22: when the coordinator has ended distribute_field_dofs with an error,
\* nothing has been sent to a worker and no worker has received anything.
C22_NoPartialState ==
    pc0 = "error" => NothingSent

\* The coordinator has failed for a missing dof map after a worker has
\* returned with its slice and another has received a part of its slice.
C22_FailedAfterSends ==
    /\ pc0 = "error"
    /\ err = "KeyError"
    /\ \E w \in Ranks : Returned(w)
    /\ \E w \in Ranks : workers[w].pc \in 2..NMsg

-----------------------------------------------------------------------------
(* C24 - C27: the dof maps *)

\* The dofs touching the cells of task t.
TaskDofs(t) ==
    UNION {Range(mesh.econn[c]) : c \in {x \in Cells(mesh) : cell_tasks[x] = t}}

\* The dofs lying on the interface facets of task t.
InterfaceDofs(t) ==
    UNION {Touched(inter_facets[t][n], 1, Len(inter_facets[t][n]))
           : n \in DOMAIN inter_facets[t]}

\* The blocks of some task change in the step.
BlocksChange ==
    \E t \in Tasks : BlocksOf(dof_maps', t) # BlocksOf(dof_maps, t)

\* C24: an owned interface block is only ever created while a task t is
\* processed with a neighbour n of higher id; when t is processed with a
\* neighbour of lower id, every dof of their interface is already claimed
\* and no block is created.
C24_BlocksWithHigherNeighbour ==
    [][/\ BlocksChange => pc0 = "inter" /\ CurrentTask < CurrentNeighbour
       /\ (pc0 = "inter" /\ CurrentNeighbour < CurrentTask) =>
             /\ \A d \in Touched(inter_facets[CurrentTask][CurrentNeighbour],
                                 1, Len(inter_facets[CurrentTask]
                                                    [CurrentNeighbour])) :
                    id_map[d] # 0
             /\ ~BlocksChange]_vars

\* A task is about to be processed with a neighbour of lower id, with which
\* it has several facets in common.
C24_Witness ==
    /\ pc0 = "inter"
    /\ CurrentNeighbour < CurrentTask
    /\ Len(inter_facets[CurrentTask][CurrentNeighbour]) > 1

\* C25: the inner dofs that the processing of a task t ends with are
\* exactly the dofs touching the cells of t that the claims of the
\* interface dofs have left unclaimed; none of them lies on an interface
\* facet of t.
C25_InnerDofs ==
    [][(pc0 = "task_end" /\ pc0' # "error") =>
          /\ Range(dof_maps'[CurrentTask].inner)
                = {d \in TaskDofs(CurrentTask) : id_map[d] = 0}
          /\ Range(dof_maps'[CurrentTask].inner)
                \cap InterfaceDofs(CurrentTask) = {}]_vars

\* A task with a neighbour of lower id has been processed, and has inner
\* dofs.
C25_Witness ==
    \E t \in DOMAIN dof_maps :
        /\ ~dof_maps[t].inner_none
        /\ dof_maps[t].inner # << >>
        /\ \E u \in DOMAIN inter_facets[t] : u < t

\* C26: in what create_task_dof_maps returns, no inner dof of a task
\* touches a cell of another task.
C26_InnerDofsOfOneTask ==
    BuildDone =>
        \A t, u \in Tasks : t # u => InnerDofs(t) \cap TaskDofs(u) = {}

\* What holds: on a mesh in which the cells around every dof are connected
\* through facets, no inner dof of a task touches a cell of another task.
C26_InnerDofsOfOneTaskOnProperMeshes ==
    (BuildDone /\ mesh \in ProperMeshes) =>
        \A t, u \in Tasks : t # u => InnerDofs(t) \cap TaskDofs(u) = {}

\* create_task_dof_maps has returned dof maps in which an inner dof of a
\* task touches a cell of another task.
C26_SharedInnerDof ==
    /\ BuildDone
    /\ \E t, u \in Tasks : t # u /\ InnerDofs(t) \cap TaskDofs(u) # {}

\* id_map is one-to-one from the mesh dofs onto 0..N-1.
IsNumbering ==
    /\ \A d1, d2 \in Dofs(mesh) : id_map[d1] = id_map[d2] => d1 = d2
    /\ {id_map[d] : d \in Dofs(mesh)} = 0..(mesh.n_nod - 1)

\* C27: the id_map that create_task_dof_maps returns is a bijection from
\* the mesh dofs onto 0..N-1.
C27_GlobalIdMapBijection ==
    BuildDone => IsNumbering

\* What holds: id_map is a bijection when every dof is owned by a task.
C27_BijectionWhereAllOwned ==
    (BuildDone /\ \A d \in Dofs(mesh) : Cardinality(Holders(d)) = 1)
        => IsNumbering

\* create_task_dof_maps has returned dof maps for tasks that all own cells,
\* and an id_map in which two dofs have the same id.
C27_SharedId ==
    /\ BuildDone
    /\ ~EmptyTask
    /\ DOMAIN dof_maps # {}
    /\ \E d1, d2 \in Dofs(mesh) : d1 # d2 /\ id_map[d1] = id_map[d2]

-----------------------------------------------------------------------------
(***************************************************************************)
(* The builder with failing collaborators.  Region.from_cells (line 77),   *)
(* field.get_dofs_in_region (lines 79, 93), Region.from_facets (line 89),  *)
(* update_shape (line 91), FESurface and get_connectivity (lines 96-98)    *)
(* are calls into the rest of the library; create_task_dof_maps has no     *)
(* try/finally and no except clause, so an exception raised by one of      *)
(* them leaves the function at that line.                                  *)
(***************************************************************************)

\* Lines 77-98: a collaborator raises while a task is processed.
QueryFails ==
    /\ \/ /\ pc0 = "task"                           \* line 77 raises
          /\ regions' = regions
       \/ /\ pc0 = "task"                           \* line 79 raises
          /\ regions' = Append(regions, CellRegion(CurrentTask))
       \/ /\ pc0 = "inter"                          \* lines 89-98 raise
          /\ regions' = regions
    /\ Raise("QueryError")
    /\ UNCHANGED << helpers, inputs, inter_facets, id_map, dof_maps, count,
                    loop, transport, ret0 >>

FaultNext ==
    \/ Next
    \/ QueryFails

FaultSpec == Init /\ [][FaultNext]_vars

\* C28: the helper region is removed on every exit path of
\* create_task_dof_maps, the exits by an error raised between the append and
\* the removal included: at every exit the region list is the list at entry.
C28_RegionsRestoredOnEveryExit ==
    (pc0 = "error" \/ BuildDone) => regions = << UserRegion >>

\* What the code gives: the list is restored on the normal return and on the
\* exit by the assert of line 128, which comes after the removal.
C28_RegionsRestoredAfterRemoval ==
    (BuildDone \/ (pc0 = "error" /\ err # "QueryError")) =>
        regions = << UserRegion >>

\* An exit by an error raised between lines 78 and 123: the cell region of
\* the task that was processed stays in the list.
C28_RegionLeftBehind ==
    /\ pc0 = "error"
    /\ err = "QueryError"
    /\ Len(regions) = 2
    /\ regions[2] = CellRegion(CurrentTask)

-----------------------------------------------------------------------------
(* Who writes the maps, and when *)

\* The InterfaceMap, the ClaimTable / GlobalIdMap and the DofMaps.
Maps == << inter_facets, id_map, dof_maps >>

\* The coordinator is in get_inter_facets or create_task_dof_maps.
Building == pc0 \in {"start", "task", "inter", "task_end", "number"}

\* C29: the maps are written only by steps of the coordinator inside its one
\* pass of get_inter_facets and create_task_dof_maps, and every such step
\* comes before the first send; once the pass is over no step of any process
\* changes them; a worker that has returned returns None for dof_maps and
\* for id_map.
C29_MapsWrittenByCoordinatorOnly ==
    [][ /\ Maps' # Maps =>
              /\ Building
              /\ workers' = workers
              /\ NothingSent
              /\ NothingSent'
        /\ BuildDone => Maps' = Maps
        /\ \A w \in Ranks :
              workers'[w].pc = NMsg + 1 =>
                  /\ workers'[w].dof_maps = "None"
                  /\ workers'[w].id_map = "None" ]_vars

\* Every process has returned, the coordinator with the dof maps it built.
C29_Witness ==
    /\ AllReturned
    /\ size > 1
    /\ Cardinality(DOMAIN dof_maps) = size
    /\ \A w \in Ranks : workers[w].dof_maps = "None"

-----------------------------------------------------------------------------
(* The coordinator's own slice *)

\* The locals of a worker of rank it after it has received, one by one, the
\* messages the send loop makes for task it.
AsWorker(it) ==
    LET msg(k) == Message(mesh, cell_parts, dof_maps, id_map, it, k)
        w1 == Receive(NewWorker, 1, msg(1))
        w2 == Receive(w1, 2, msg(2))
        w3 == Receive(w2, 3, msg(3))
        w4 == Receive(w3, 4, msg(4))
        w5 == Receive(w4, 5, msg(5))
        w6 == Receive(w5, 6, msg(6))
    IN  Receive(w6, 7, msg(7))

\* id_map applied to the raw connectivity of the cells, entry by entry.
Renumbered(cells) ==
    [i \in 1..Len(cells) |->
        [j \in 1..Len(mesh.econn[0]) |-> id_map[mesh.econn[cells[i]][j]]]]

\* The coordinator is no end of the channel: no message is addressed to
\* rank 0 and no queue leads to it.
NoSelfChannel ==
    /\ 0 \notin DOMAIN chan
    /\ 0 \notin DOMAIN workers
    /\ snd.it >= 1

C30_Fallback ==
    /\ ret0.returned
    /\ 0 \notin DOMAIN dof_maps

-----------------------------------------------------------------------------
(***************************************************************************)
(* End to end: a structured grid of 4 x 4 cells in 2 tasks split along the *)
(* middle row.  Every task localizes its cells, assembles its local        *)
(* system, applies the Dirichlet condition to its rows and assembles into  *)
(* the distributed system.                                                 *)
(***************************************************************************)

\* The structured grid of n x n quadrilaterals: nodes (n + 1) * row + col,
\* cells n * row + col; the facets of a row of cells are its lower edges
\* followed by its upright edges, the upper edges of the last row come last.
StructuredGrid(n) ==
    LET node(ix, iy) == (n + 1) * iy + ix
        n_fa == 2 * n * (n + 1)
        row(f) == f \div (2 * n + 1)
        col(f) == f % (2 * n + 1)
        nodes(f) ==
            IF col(f) < n
            THEN << node(col(f), row(f)), node(col(f) + 1, row(f)) >>
            ELSE << node(col(f) - n, row(f)), node(col(f) - n, row(f) + 1) >>
        cells(f) ==
            IF col(f) < n
            THEN (IF row(f) > 0 THEN << n * (row(f) - 1) + col(f) >>
                  ELSE << >>)
                 \o (IF row(f) < n THEN << n * row(f) + col(f) >> ELSE << >>)
            ELSE (IF col(f) - n > 0 THEN << n * row(f) + col(f) - n - 1 >>
                  ELSE << >>)
                 \o (IF col(f) - n < n THEN << n * row(f) + col(f) - n >>
                     ELSE << >>)
    IN  [n_el |-> n * n, n_nod |-> (n + 1) * (n + 1),
         econn |-> [c \in 0..(n * n - 1) |->
                       << node(c % n, c \div n), node((c % n) + 1, c \div n),
                          node((c % n) + 1, (c \div n) + 1),
                          node(c % n, (c \div n) + 1) >>],
         cfc_offsets |-> [k \in 0..n_fa |->
                             sum([f \in 1..k |-> Len(cells(f - 1))])],
         cfc_indices |-> Arr(concatenate([f \in 1..n_fa |-> cells(f - 1)])),
         efaces |-> [f \in 0..(n_fa - 1) |-> nodes(f)]]

\* The grid of the end-to-end run.
Grid4x4Mesh == StructuredGrid(4)

\* The lower two rows of cells are task 0, the upper two are task 1.
MiddleRowSplit == [c \in Cells(Grid4x4Mesh) |-> IF c < 8 THEN 0 ELSE 1]


\* The nodes of one side of the grid of n x n cells.
SideNodes(n, side) ==
    CASE side = "bottom" -> {ix : ix \in 0..n}
      [] side = "top" -> {(n + 1) * n + ix : ix \in 0..n}
      [] side = "left" -> {(n + 1) * iy : iy \in 0..n}
      [] side = "right" -> {(n + 1) * iy + n : iy \in 0..n}

\* The Dirichlet conditions that are explored: the value is prescribed on
\* one side of the grid.
DirichletSets ==
    {SideNodes(4, side) : side \in {"bottom", "top", "left", "right"}}

\* The function f as an array in memory: every value is computed once, when
\* the array is made.
Table(f) == f @@ << >>

\* The local number of dof d in a localized mesh of the given cells: its
\* position among the dofs of the cells, in increasing order.
LocalId(m, cells, d) ==
    Cardinality({x \in Range(get_dofs_in_cells(m, cells)) : x < d})

\* The cell connectivity of the localized field, in local numbers.
LocalEconn(m, cells) ==
    Table([i \in 0..(Len(cells) - 1) |->
              Table([j \in 1..n_ep(m) |->
                        LocalId(m, cells, m.econn[cells[i + 1]][j])])])

\* The element matrix of the Laplacian on a square cell with bilinear
\* shape functions, times 6: local nodes i, j in the order of the cell's
\* connectivity.
ElementMatrix(i, j) ==
    IF i = j THEN 4
    ELSE IF (i - j) % 2 = 0 THEN -2 ELSE -1

\* The element vector of a unit source, times 4.
ElementVector(i) == 1

\* The entry (r, c) of the matrix assembled over the cells of econn.
AssembledEntry(econn, r, c) ==
    sum([e \in 1..Cardinality(DOMAIN econn) |->
            sum([ij \in 1..16 |->
                    LET i == ((ij - 1) \div 4) + 1
                        j == ((ij - 1) % 4) + 1
                    IN  IF econn[e - 1][i] = r /\ econn[e - 1][j] = c
                        THEN ElementMatrix(i, j) ELSE 0])])

\* The local matrix in CSR form: the stored entries of a row are the columns
\* that share a cell with it, in increasing order.
LocalMatrix(econn, n) ==
    LET pattern == Table([r \in 0..(n - 1) |->
                             {c \in 0..(n - 1) :
                                 \E e \in DOMAIN econn :
                                     /\ r \in Range(econn[e])
                                     /\ c \in Range(econn[e])}])
        rows == Table([i \in 1..n |-> SortedSeq(pattern[i - 1])])
        shape == [indptr |-> Table([r \in 0..n |->
                                       sum([i \in 1..r |-> Len(rows[i])])]),
                  indices |-> Table(Arr(concatenate(rows)))]
    IN  [indptr |-> shape.indptr,
         indices |-> shape.indices,
         data |-> [ic \in DOMAIN shape.indices |->
                      AssembledEntry(econn, RowOf(shape, ic),
                                     shape.indices[ic])]]

\* The local right-hand side.
LocalVector(econn, n) ==
    [r \in 0..(n - 1) |->
        sum([e \in 1..Cardinality(DOMAIN econn) |->
                sum([i \in 1..Len(econn[e - 1]) |->
                        IF econn[e - 1][i] = r THEN ElementVector(i)
                        ELSE 0])])]

\* eq_map.eq_ebc of the localized field: the local numbers of the Dirichlet
\* dofs among the dofs of the cells, in increasing order.
eq_ebc(m, cells, ebc) ==
    SortedSeq({LocalId(m, cells, d) :
                  d \in ebc \cap Range(get_dofs_in_cells(m, cells))})

\* The local system of a task from what distribute_field_dofs returned to
\* it: the map pdofs of get_local_ordering (expanded for one component), and
\* the matrix and vector assembled over the task's cells.
LocalSystem(m, cells, conn, e1, e2) ==
    LET econn == LocalEconn(m, cells)
        n == Len(get_dofs_in_cells(m, cells))
    IN  [pc |-> "ebc", err |-> "",
         pdofs |-> expand_dofs(
                       e2, Table(get_local_ordering(e1, econn, conn)), 1),
         mtx |-> LocalMatrix(econn, n),
         rhs |-> LocalVector(econn, n)]

\* The task has not yet returned from distribute_field_dofs.
Distributing ==
    [pc |-> "distribute", err |-> "", pdofs |-> << >>, mtx |-> << >>,
     rhs |-> << >>]

\* The cells and the connectivity that distribute_field_dofs returned on
\* task t.
TaskSlice(t) ==
    IF t = 0
    THEN [returned |-> ret0.returned, cells |-> ret0.cells,
          conn |-> Table(Arr(ret0.conn))]
    ELSE [returned |-> workers[t].pc = NMsg + 1, cells |-> workers[t].cells,
          conn |-> Table(Arr(workers[t].conn))]

\* Both tasks are about to call distribute_field_dofs for the grid split
\* along the middle row; the distributed system of 25 equations is zero.
EndToEndInit ==
    /\ mesh = Grid4x4Mesh
    /\ size = 2
    /\ cell_tasks = MiddleRowSplit
    /\ cell_parts = CellParts(mesh, size, cell_tasks)
    /\ pc0 = "start"
    /\ err = ""
    /\ inter_facets = EmptyDict
    /\ id_map = [d \in Dofs(mesh) |-> 0]
    /\ dof_maps = EmptyDict
    /\ count = [count |-> 0, inter_count |-> 0]
    /\ regions = <<UserRegion>>
    /\ loop = NoLoop
    /\ snd = [it |-> 1, k |-> 1]
    /\ chan = [w \in Ranks |-> <<>>]
    /\ workers = [w \in Ranks |-> NewWorker]
    /\ ret0 = NoReturn
    /\ \E ebc \in DirichletSets :
          call = [fn |-> "end_to_end", n_eq |-> mesh.n_nod, ebc |-> ebc]
    /\ out = NoOut
    /\ pmtx = [vals |-> [ij \in Dofs(mesh) \X Dofs(mesh) |-> 0],
               stash |-> << >>]
    /\ prhs = [vals |-> [i \in Dofs(mesh) |-> 0], stash |-> << >>]
    /\ asm = [t \in 0..(size - 1) |-> Distributing]

\* Task t localizes its cells and assembles its local system.
LocalAssemble(t) ==
    /\ t \in DOMAIN asm
    /\ asm[t].pc = "distribute"
    /\ TaskSlice(t).returned
    /\ LET cells == TaskSlice(t).cells
           n == Len(get_dofs_in_cells(mesh, cells))
       IN  \E e1 \in Empty(n), e2 \in Empty(n) :
               asm' = [asm EXCEPT
                         ![t] = LocalSystem(mesh, cells, TaskSlice(t).conn,
                                            e1, e2)]
    /\ UNCHANGED << distribution, call, out, pmtx, prhs >>

\* Task t applies the Dirichlet condition to the rows of its local matrix.
ApplyEbcLocal(t) ==
    /\ t \in DOMAIN asm
    /\ asm[t].pc = "ebc"
    /\ asm' = [asm EXCEPT
                 ![t].mtx = apply_ebc_to_matrix(
                                @, eq_ebc(mesh, TaskSlice(t).cells, call.ebc)),
                 ![t].pc = "mat_set"]
    /\ UNCHANGED << distribution, call, out, pmtx, prhs >>

EndToEndNext ==
    \/ GetInterFacets
    \/ TaskBegin
    \/ ClaimInterface
    \/ TaskEnd
    \/ NumberTask
    \/ CheckCells
    \/ Send
    \/ OwnSlice
    \/ \E w \in Ranks : Recv(w)
    \/ \E t \in DOMAIN asm : LocalAssemble(t)
    \/ \E t \in DOMAIN asm : ApplyEbcLocal(t)
    \/ \E t \in DOMAIN asm : MatSetValues(t)
    \/ MatAssemble
    \/ \E t \in DOMAIN asm : VecSetValues(t)
    \/ VecAssemble

EndToEndSpec == EndToEndInit /\ [][EndToEndNext]_vars


\* The dofs on the facets between the two tasks.
SplitDofs ==
    IF 0 \in DOMAIN inter_facets /\ 1 \in DOMAIN inter_facets[0]
    THEN Range(get_dofs_in_facets(mesh, inter_facets[0][1]))
    ELSE {}

\* The system of the single-task run of the same problem: the one task has
\* every cell, distribute_field_dofs returns it the raw connectivity
\* (lines 208-210), and its local system is assembled into the distributed
\* system of one process.
SingleTaskSystem(ebc) ==
    LET cells == [i \in 1..mesh.n_el |-> i - 1]
        n == mesh.n_nod
        e == [i \in 0..(n - 1) |-> 0]
        sys == LocalSystem(mesh, cells, Table(Arr(global_conn(mesh, cells))),
                           e, e)
        mtx == apply_ebc_to_matrix(sys.mtx, eq_ebc(mesh, cells, ebc))
        mat == Table(setValuesLocalCSR(sys.pdofs, n, mtx, InsertMode).entries)
        vec == Table(setValuesLocal(sys.pdofs, n, [i \in 0..(n - 1) |-> i],
                                    sys.rhs, InsertMode).entries)
    IN  [mtx |-> Table(MatAssembled([ij \in Eqs(n) \X Eqs(n) |-> 0], mat)),
         rhs |-> Table(VecAssembled([i \in Eqs(n) |-> 0], vec))]

\* Both tasks have returned from assemble_to_petsc.
EndToEndDone ==
    /\ call.fn = "end_to_end"
    /\ \A t \in DOMAIN asm : asm[t].pc = "done"

\* The entries of the distributed system at the global ids of the dofs a, b
\* are those of the system ref at a, b.
SameEntry(ref, a, b) == pmtx.vals[<< id_map[a], id_map[b] >>] = ref.mtx[<< a, b >>]
SameRhs(ref, a) == prhs.vals[id_map[a]] = ref.rhs[a]

\* Every dof on the split is owned by exactly one task.
SplitOwnedOnce ==
    BuildDone =>
        \A d \in SplitDofs : Cardinality({t \in Tasks : d \in OwnedDofs(t)}) = 1

\* C23: on the 4 x 4 grid in 2 tasks split along the middle row every dof on
\* the split is owned by exactly one task, and the system that local
\* assembly, local boundary-row enforcement and the distributed accumulate
\* of both tasks give is, up to the renumbering by id_map, the system of the
\* single-task assembly of the same problem with the same Dirichlet
\* condition.
C23_EndToEnd ==
    /\ SplitOwnedOnce
    /\ EndToEndDone =>
          LET ref == SingleTaskSystem(call.ebc)
          IN  /\ \A a, b \in Dofs(mesh) : SameEntry(ref, a, b)
              /\ \A a \in Dofs(mesh) : SameRhs(ref, a)

\* What the code gives: the two systems agree except on the diagonal of
\* the rows of the Dirichlet dofs on the split, where each of the two
\* tasks adds its 1.
C23_AgreeOffSplitDirichletRows ==
    /\ SplitOwnedOnce
    /\ EndToEndDone =>
          LET ref == SingleTaskSystem(call.ebc)
          IN  /\ \A a, b \in Dofs(mesh) :
                    IF a = b /\ a \in call.ebc \cap SplitDofs
                    THEN /\ ref.mtx[<< a, a >>] = 1
                         /\ pmtx.vals[<< id_map[a], id_map[a] >>] = 2
                    ELSE SameEntry(ref, a, b)
              /\ \A a \in Dofs(mesh) : SameRhs(ref, a)

\* Both tasks have assembled a problem whose Dirichlet side crosses the
\* split.
C23_DirichletOnSplit ==
    /\ EndToEndDone
    /\ call.ebc \cap SplitDofs # {}
    /\ id_map # [d \in Dofs(mesh) |-> d]

-----------------------------------------------------------------------------
(* The finalize barrier of assemble_to_petsc *)

\* Task t leaves the PETSc call at position pc in this step.
Leaves(t, pc) == asm[t].pc = pc /\ asm'[t].pc # pc

\* Entry (I, J) of the matrix m is the prior value and what every task
\* contributes.
HoldsAllMat(m) ==
    \A I, J \in Eqs(call.n_eq) :
        m[<< I, J >>]
            = call.prior + sum([k \in DOMAIN TaskSeq |->
                                   MatContribution(TaskSeq[k], I, J)])

\* Entry I of the vector v is the prior value and what every task
\* contributes.
HoldsAllVec(v) ==
    \A I \in Eqs(call.n_eq) :
        v[I] = call.prior + sum([k \in DOMAIN TaskSeq |->
                                    VecContribution(TaskSeq[k], I)])

\* C31: the finalize of the matrix, and that of the vector, completes on no
\* task before every task has inserted its entries and entered the
\* finalize; the matrix a task reads after its matrix finalize, and the
\* matrix and vector it reads after its return, hold the contributions of
\* every task.
C31_FinalizeIsBarrier ==
    [][ call.fn = "assemble_to_petsc" =>
          \A t \in AsmTasks :
              /\ Leaves(t, "mat_assemble") =>
                    /\ \A u \in AsmTasks : asm[u].pc = "mat_assemble"
                    /\ HoldsAllMat(pmtx'.vals)
              /\ Leaves(t, "vec_assemble") =>
                    /\ \A u \in AsmTasks : asm[u].pc = "vec_assemble"
                    /\ HoldsAllMat(pmtx'.vals)
                    /\ HoldsAllVec(prhs'.vals)
                    /\ asm'[t].pc = "done" ]_vars

\* Two tasks have returned, and each has put values into the matrix.
C31_Witness ==
    /\ AllAssembled
    /\ Cardinality(AsmTasks) > 1
    /\ \A t \in AsmTasks :
          \E I, J \in Eqs(call.n_eq) : MatContribution(t, I, J) # 0

-----------------------------------------------------------------------------
(* Owned dofs and the connectivity a task gets *)

\* The entries of a connectivity array.
ConnIds(conn) == UNION {Range(conn[i]) : i \in DOMAIN conn}

\* The LocalOrdering of worker w: get_local_ordering on the localized field
\* of the cells it received and the connectivity it received.
LocalOrdering(w) ==
    LET cells == workers[w].cells
        n == Len(get_dofs_in_cells(mesh, cells))
    IN  get_local_ordering([i \in 0..(n - 1) |-> -1], LocalEconn(mesh, cells),
                           Arr(workers[w].conn))

\* C32: every dof that task t owns, as an inner dof or in an owned interface
\* block, is a dof of a cell of t; so every global id of the owned range
\* [start, end) of a worker occurs in the connectivity that the worker
\* received, and in the LocalOrdering made from it.
C32_OwnedDofsInOwnCells ==
    /\ BuildDone => \A t \in DOMAIN dof_maps : OwnedDofs(t) \subseteq TaskDofs(t)
    /\ \A w \in Ranks :
          Returned(w) =>
              /\ workers[w].i0..(workers[w].i1 - 1)
                    \subseteq ConnIds(workers[w].conn)
              /\ workers[w].i0..(workers[w].i1 - 1)
                    \subseteq Range(LocalOrdering(w))

\* A worker has returned with a range that holds inner dofs and dofs of an
\* owned interface block, and with dofs in its cells that it does not own.
C32_Witness ==
    \E w \in Ranks :
        /\ Returned(w)
        /\ InnerDofs(w) # {}
        /\ NBlocks(w) >= 1
        /\ workers[w].i0 > 0
        /\ ConnIds(workers[w].conn)
              # workers[w].i0..(workers[w].i1 - 1)

-----------------------------------------------------------------------------
(* Constrained rows of the distributed matrix *)

\* The tasks whose local matrix has the row of dof d.
RowTasks(d) == {t \in Tasks : d \in TaskDofs(t)}

\* The entry of the distributed matrix at the global ids of dofs a and b.
GlobalEntry(a, b) == pmtx.vals[<< id_map[a], id_map[b] >>]

\* C33: after every task has applied apply_ebc_to_matrix to its local
\* matrix and the local matrices are accumulated, the row of a constrained
\* dof in the distributed matrix is zero off the diagonal and holds on the
\* diagonal the number of tasks whose local matrix has the row: 1 exactly
\* when one task contributes the row, more than 1 for a constrained dof on
\* the interface between the tasks.
C33_ConstrainedRowCounts ==
    EndToEndDone =>
        \A d \in call.ebc :
            /\ \A b \in Dofs(mesh) \ {d} : GlobalEntry(d, b) = 0
            /\ GlobalEntry(d, d) = Cardinality(RowTasks(d))
            /\ GlobalEntry(d, d) = 1 <=> Cardinality(RowTasks(d)) = 1
            /\ d \in SplitDofs => GlobalEntry(d, d) > 1

\* Both tasks have assembled; one constrained dof lies on the split and
\* another inside a task.
C33_Witness ==
    /\ EndToEndDone
    /\ \E d \in call.ebc : d \in SplitDofs /\ Cardinality(RowTasks(d)) = 2
    /\ \E d \in call.ebc : d \notin SplitDofs /\ Cardinality(RowTasks(d)) = 1

-----------------------------------------------------------------------------
(* The claim-conflict assertion *)

\* Every facet of the mesh has at most two bordering cells.
TwoSided(m) == \A f \in Facets(m) : Len(FacetCells(m, f)) <= 2

\* The inner dofs of the task whose neighbour loop has ended, as line 125
\* computes them.
PendingInnerDofs ==
    Range(setdiff1d(loop.dofs, concatenate(loop.inter_dofs)))

\* The assertion of line 128 does not fire: the inner dofs about to be
\* claimed are all unclaimed, and the builder has not ended with a conflict.
NoClaimConflict ==
    /\ pc0 = "task_end" => \A d \in PendingInnerDofs : id_map[d] = 0
    /\ ~(pc0 = "error" /\ err = "ClaimConflict")

C34_ConflictAtNode ==
    /\ TwoSided(mesh)
    /\ pc0 = "task_end"
    /\ \E d \in PendingInnerDofs : id_map[d] # 0

-----------------------------------------------------------------------------
(* The sizes of the tasks *)

\* What get_sizes returns for the owned range of task t in dof_maps, for a
\* field of nc components.
TaskSizes(t, nc) ==
    get_sizes(<< dof_maps[t].offset, dof_maps[t].offset + dof_maps[t].n_owned >>,
              mesh.n_nod, nc)

\* The equation ids of the range that get_sizes gives task t.
EqRange(t, nc) ==
    TaskSizes(t, nc).drange[1]..(TaskSizes(t, nc).drange[2] - 1)

\* Every task has its owned range from create_task_dof_maps.
AllRangesBuilt == BuildDone /\ DOMAIN dof_maps = Tasks

\* C35: when the owned range of every task comes from
\* create_task_dof_maps, the local sizes that get_sizes returns for the
\* tasks add up to the total size, and the equation ranges of the tasks are
\* pairwise disjoint and together are 0..n_components * n_dof - 1.
C35_SizesPartitionEquations ==
    AllRangesBuilt =>
        \A nc \in 1..MaxComponents :
            /\ \A t \in Tasks :
                  TaskSizes(t, nc).sizes[2] = nc * mesh.n_nod
            /\ sum([k \in 1..size |-> TaskSizes(k - 1, nc).sizes[1]])
                  = nc * mesh.n_nod
            /\ \A t, u \in Tasks :
                  t # u => EqRange(t, nc) \cap EqRange(u, nc) = {}
            /\ UNION {EqRange(t, nc) : t \in Tasks}
                  = 0..(nc * mesh.n_nod - 1)

\* Three tasks have their ranges from the builder, none of them empty.
C35_Witness ==
    /\ AllRangesBuilt
    /\ size = 3
    /\ \A t \in Tasks : dof_maps[t].n_owned > 0
    /\ dof_maps[2].offset > dof_maps[1].offset

-----------------------------------------------------------------------------
(* The frame of apply_ebc_to_matrix *)

\* C36: apply_ebc_to_matrix changes only the stored values of the
\* constrained rows: the row offsets, the column indices and the stored
\* values of every row that is not constrained are as before, and applying
\* it again with the same constrained rows changes nothing.
C36_OnlyConstrainedRowsChange ==
    Returned14 =>
        /\ out.mtx.indptr = call.mtx.indptr
        /\ out.mtx.indices = call.mtx.indices
        /\ DOMAIN out.mtx.data = DOMAIN call.mtx.data
        /\ \A ir \in (0..(n_row(call.mtx) - 1)) \ Range(call.eq_ebc) :
              \A ic \in RowEntries(call.mtx, ir) :
                  out.mtx.data[ic] = call.mtx.data[ic]
        /\ apply_ebc_to_matrix(out.mtx, call.eq_ebc) = out.mtx

\* apply_ebc_to_matrix has changed a constrained row of a matrix that has
\* another, unconstrained row with stored values after it.
C36_Witness ==
    /\ Returned14
    /\ out.mtx # call.mtx
    /\ \E ir \in Range(call.eq_ebc) :
          /\ RowEntries(call.mtx, ir) # {}
          /\ ir + 1 < n_row(call.mtx)
          /\ ir + 1 \notin Range(call.eq_ebc)
          /\ NonZeros(call.mtx, ir + 1) # {}


-----------------------------------------------------------------------------
(* C37: the owned count of the numbering pass *)

\* The number of dofs held by the dof map of task t: its inner dofs and all
\* its owned interface blocks.
HeldDofs(t) == Len(dof_maps[t].inner) + Len(concatenate(dof_maps[t].blocks))

\* The numbering pass is running or has finished.
NumberingReached == pc0 = "number" \/ (BuildDone /\ DOMAIN dof_maps # {})

\* C37: in the numbering pass assert_(i0 == n_owned) holds for every task of
\* dof_maps: the counter dof_map[2] accumulated while claiming equals the
\* number of inner dofs of the task plus the total size of its owned
\* interface blocks, and the inner dofs of every task of dof_maps have been
\* assigned (dof_map[0] is never left at None), so neither the assertion nor
\* len(None) ends the pass.
C37_OwnedCountMatches ==
    /\ err \notin {"OwnedCount", "TypeError"}
    /\ NumberingReached =>
           \A t \in DOMAIN dof_maps :
               /\ ~dof_maps[t].inner_none
               /\ dof_maps[t].n_owned = HeldDofs(t)

\* The numbering pass has numbered three tasks: each holds inner dofs and at
\* least two of them hold an owned interface block.
C37_Witness ==
    /\ pc0 = "checks"
    /\ Cardinality(DOMAIN dof_maps) = 3
    /\ \A t \in DOMAIN dof_maps : Len(dof_maps[t].inner) > 0
    /\ Cardinality({t \in DOMAIN dof_maps : Len(dof_maps[t].blocks) > 0}) >= 2

====
